---- MODULE Spec2Model ----
(***************************************************************************)
(* A model of the concurrent data plane of serial-mcp-server:              *)
(*   - SerialBuffer (mirror.py): the blocking byte buffer,                 *)
(*   - ReaderThread / MirrorSession (mirror.py): the ingest loops,         *)
(*   - the write-arbitration lock (mirror.py, handlers_serial.py),         *)
(*   - SerialState and handle_open / handle_close (state.py,               *)
(*     handlers_serial.py): the connection registry,                       *)
(*   - MirrorSession's descriptors, alias and slot index (mirror.py),      *)
(*   - handle_flush (handlers_serial.py),                                  *)
(*   - PluginManager (plugins.py).                                         *)
(* Each part has its own specification (SpecBuf, SpecCall and SpecWait    *)
(* for the buffer, SpecLoop, SpecStale, SpecStop and SpecFlush for the     *)
(* ingest loop, SpecWrite, SpecFailingWrite and SpecMirror for the write   *)
(* side and the mirror loop, SpecReg and SpecClose for the registry,       *)
(* SpecSess for the sessions, SpecPlug for the plugins) over a shared set  *)
(* of variables; a specification leaves the variables of the other parts   *)
(* unchanged.                                                              *)
(***************************************************************************)
EXTENDS Integers, Sequences, FiniteSets, TLC

\* ------------------------------------------------------------------ bounds
\* SerialBuffer(max_size=...): the capacity, scaled down (the default is 1 MiB).
MaxSize == 2
\* The longest chunk one SerialBuffer.write call carries (longer than MaxSize).
MaxChunk == 3
\* The total number of bytes written to the buffer in one behaviour.
MaxTotal == 3
\* The largest nbytes / max_bytes a consumer passes.
MaxN == 2
\* The number of bytes the transport receives in one behaviour.
MaxArrive == 2
\* The number of transport errors in one behaviour.
MaxFailures == 11
\* The longest payload of one serial.write call.
MaxPayload == 2
\* The total number of payload bytes of the serial.write calls of one behaviour.
MaxToolBytes == 3
\* The number of bytes an external process writes to the PTY in one behaviour.
MaxPty == 2
\* SerialState(max_connections=...): the registry's capacity, scaled down
\* (the default is 10).
MaxConnections == 2
\* The number of transports opened in one behaviour.
MaxOpens == 4
\* The number of connections whose transport is closed behind the registry's
\* back or whose stop() or close() raises, in one behaviour.
MaxFaulty == 2
\* The number of transports opened in one behaviour with such faults.
MaxClosable == 2
\* The number of MirrorSession constructions in one behaviour.
MaxSessions == 2
\* The number of stop() calls on MirrorSessions in one behaviour.
MaxStops == 3
\* The number of times the plugin files are edited in one behaviour.
MaxEdits == 2

\* --------------------------------------------------------------- constants
\* ReaderThread._MAX_CONSECUTIVE_ERRORS
MaxConsecutiveErrors == 10

\* ------------------------------------------------------------- variables
VARIABLES
    \* SerialBuffer
    buf,        \* SerialBuffer._buf: the buffered bytes, oldest first
    written,    \* history: every byte ever appended, in append order
    delivered,  \* history: every byte returned by a consumer call, in return order
    evicted,    \* history: number of bytes trimmed from the front on overflow
    cpc,        \* per consumer: "idle" or "waiting" (inside Condition.wait)
    call,       \* per consumer: the parameters of the call it is blocked in
    woken,      \* consumers notified by notify_all and not yet running again
    ret,        \* history: the last call a read handler saw return, with the
                \* buffer as the call's last pass found it and the bytes it got
    \* ReaderThread (one connection's ingest loop) and its transport
    lpc,        \* ReaderThread._run: the thread's position
    errors,     \* ReaderThread._run: the local counter "errors"
    waiting,    \* ReaderThread._run: the local "waiting" (ser.in_waiting)
    chunk,      \* ReaderThread._run: the local "data" (what ser.read returned)
    stopFlag,   \* ReaderThread._stop (threading.Event)
    thread,     \* ReaderThread._thread: "set" or "none"
    rx,         \* the transport's input queue: bytes arrived and not yet read
    arrived,    \* history: every byte the transport received, in arrival order
    serOpen,    \* ser.is_open
    registered, \* whether the connection is in SerialState.connections
    closePc,    \* SerialState.close_connection: the caller's position
    streak,     \* history: transport errors since the last successful iteration
    failures,   \* history: transport errors in total
    \* The transport's write side and its writers
    mode,       \* MirrorSession.mode ("ro", "rw"), "off" for a plain ReaderThread
    writeLock,  \* ReaderThread.write_lock: "free" or the writer holding it
    tpc,        \* per tool call: position in handle_write / _locked_write
    tpay,       \* per tool call: the bytes of payload ser.write has yet to put out
    ptyq,       \* bytes written to the PTY slave, not yet read from the master,
                \* each known by the position at which it was written
    tres,       \* per tool call: how its latest handle_write ended, "none" while
                \* it runs
    ptyIn,      \* history: number of bytes ever written to the PTY slave
    readable,   \* MirrorSession._run: the descriptors select returned, yet to visit
    pty_data,   \* MirrorSession._run: the bytes of pty_data ser.write has yet to put out
    wire,       \* history: every byte put on the transport's write side, in order
    pending,    \* bytes written to the transport since the last ser.flush()
    tee,        \* history: every byte written to the PTY master, in write order
    \* SerialState, the handlers of serial.open / serial.close, the mirror slots
    connections,            \* SerialState.connections: the registered ids
    objs,                   \* every connection object created, by id: its port,
                            \* transport, reader and mirror fields
    mirror_indices_in_use,  \* mirror._mirror_indices_in_use
    links,                  \* the alias symlinks that exist, by index
    opc,        \* per handler task: "idle" or "opening" (suspended in handle_open)
    oport,      \* per handler task: the port of the open it is suspended in
    ores,       \* per handler task: the error code of its last result, or "ok"
    oinfo,      \* what the latest step of the registry reported, when it was a
                \* close or a status call: the id and port of the dict
                \* close_connection returned, or the id the KeyError names
    \* MirrorSession objects and the operating system under them
    sessions,   \* every MirrorSession constructed, in order: its descriptors,
                \* link_path, _link_created, _mirror_index and the calls of stop()
    fds,        \* the process's descriptor table: per number, the session the
                \* open descriptor was handed to, 0 when the number is free
    aliases,    \* the file system: per link index, the session whose symlink is
                \* at that path, 0 when there is none
    sinfo,      \* what the latest call on a session did or returned
    \* PluginManager
    plugin_tools,     \* PluginManager._tools: the server's tool list
    plugin_handlers,  \* PluginManager._handlers: the server's handler map
    loaded,           \* PluginManager.loaded
    disk,             \* the plugin files: per plugin, its present content
    pinfo,            \* what the latest call on the manager did or returned
    \* handle_flush
    fpc,        \* the position of the serial.flush call, "idle" before it
    fwhat,      \* its argument what
    fmark       \* history: the number of bytes the transport had received
                \* when the call began

bufVars == <<buf, written, delivered, evicted, cpc, call, woken, ret>>
loopVars == <<lpc, errors, waiting, chunk, stopFlag, thread, rx, arrived,
              serOpen, registered, closePc, streak, failures>>

wrVars == <<mode, tres, writeLock, tpc, tpay, ptyq, ptyIn, readable, pty_data, wire,
            pending>>

teeVars == <<tee>>

regVars == <<connections, objs, mirror_indices_in_use, links, opc, oport, ores,
             oinfo>>

sessVars == <<sessions, fds, aliases, sinfo>>

plugVars == <<plugin_tools, plugin_handlers, loaded, disk, pinfo>>

flushVars == <<fpc, fwhat, fmark>>

vars == <<bufVars, loopVars, wrVars, teeVars, regVars, sessVars, plugVars, flushVars>>

\* --------------------------------------------------------- Python helpers
Min(a, b) == IF a < b THEN a ELSE b
Max(a, b) == IF a > b THEN a ELSE b

\* The number of leading elements the slice s[:n] covers (n may be negative).
PySliceLen(s, n) == IF n >= 0 THEN Min(n, Len(s)) ELSE Max(Len(s) + n, 0)
\* s[:n]
PyPrefix(s, n) == SubSeq(s, 1, PySliceLen(s, n))
\* s after del s[:n]
PyDelPrefix(s, n) == SubSeq(s, PySliceLen(s, n) + 1, Len(s))

\* The byte values of a buffer content (each buffered byte carries the
\* position at which it was written, so that two equal byte values written at
\* different times stay distinguishable).
Bytes(s) == [i \in 1..Len(s) |-> s[i].b]

\* bytearray.find(delimiter): the lowest 0-based index at which delimiter
\* occurs in s, -1 when it does not occur; the empty delimiter occurs at 0.
Find(s, delimiter) ==
    LET n == Len(delimiter)
        hits == {i \in 0..(Len(s) - n) :
                    \A j \in 1..n : s[i + j].b = delimiter[j]}
    IN  IF hits = {} THEN -1 ELSE CHOOSE i \in hits : \A k \in hits : i <= k

\* ------------------------------------------------------------ input sets
Byte == {0, 1}
Consumers == {"c1", "c2"}
SeqsUpTo(n) == UNION {[1..k -> Byte] : k \in 0..n}
Chunks == SeqsUpTo(MaxChunk)
ReadSizes == -1..MaxN
Delimiters == {<<>>, <<1>>, <<0, 1>>}
\* A call's timeout in clock ticks: already over at the call, or one tick away.
Timeouts == {0, 1}
NoCall == [op |-> "none"]
NoReturn == [op |-> "none"]
Tools == {"t1", "t2"}
PayloadLengths == 1..MaxPayload
Handlers == {"h1", "h2"}
Ports == {"p1", "p2"}
\* The arguments of serial.open: the defaults on either port, and one
\* argument set per parameter that handle_open rejects.
DefaultArgs(port) ==
    [port |-> port, parity |-> "N", stopbits |-> "1", bytesize |-> 8,
     timeout_ms |-> 200, write_timeout_ms |-> 200]
OpenArgs ==
    {DefaultArgs(p) : p \in Ports} \cup
    {[DefaultArgs("p1") EXCEPT !.parity = "X"],
     [DefaultArgs("p1") EXCEPT !.stopbits = "3"],
     [DefaultArgs("p1") EXCEPT !.bytesize = 9],
     [DefaultArgs("p1") EXCEPT !.timeout_ms = -1],
     [DefaultArgs("p1") EXCEPT !.write_timeout_ms = -1]}

\* ----------------------------------------------------------- SerialBuffer
\* (a write that trims the newest bytes instead of the oldest)
BufferAfterWriteTrimsBack(b, data) ==
    IF Len(data) = 0 THEN b ELSE SubSeq(b \o data, 1, Min(Len(b) + Len(data), MaxSize))
\* SerialBuffer.write, the buffer content after the call.
BufferAfterWrite(b, data) ==
    IF Len(data) = 0 THEN b
    ELSE LET ext == b \o data
         IN  IF Len(ext) > MaxSize
             THEN SubSeq(ext, (Len(ext) - MaxSize) + 1, Len(ext))
             ELSE ext

\* A chunk of byte values as buffer elements, numbered after the bytes
\* written so far.
Stamp(data, base) == [i \in 1..Len(data) |-> [id |-> base + i, b |-> data[i]]]

\* (a write that does not notify the waiting consumers)
BufferWriteNoNotify(data) ==
    LET new == Stamp(data, Len(written))
    IN  /\ buf' = BufferAfterWrite(buf, new)
        /\ written' = written \o new
        /\ evicted' = evicted + ((Len(buf) + Len(new)) - Len(buf'))
        /\ woken' = woken
\* SerialBuffer.write(data): append, trim from the front, notify_all.
BufferWrite(data) ==
    LET new == Stamp(data, Len(written))
    IN  /\ buf' = BufferAfterWrite(buf, new)
        /\ written' = written \o new
        /\ evicted' = evicted + ((Len(buf) + Len(new)) - Len(buf'))
        /\ woken' = IF Len(data) = 0 THEN woken
                    ELSE {c \in Consumers : cpc[c] = "waiting"}

\* A producer calls SerialBuffer.write(data).
Write(data) ==
    /\ Len(written) + Len(data) <= MaxTotal
    /\ BufferWrite(data)
    /\ UNCHANGED <<delivered, cpc, call, ret, loopVars, wrVars, teeVars, sessVars, plugVars, flushVars, regVars>>

\* SerialBuffer.read once the buffer is non-empty: the bytes returned, and
\* the bytes left behind.
ReadResult(b, nbytes) == PyPrefix(b, Min(nbytes, Len(b)))
\* (a read that forgets "del self._buf[:n]")
ReadRestKeepsAll(b, nbytes) == b
ReadRest(b, nbytes) == PyDelPrefix(b, Min(nbytes, Len(b)))

\* SerialBuffer.read_until, one pass of its loop body: the slice bound it
\* cuts the buffer at, or -2 when it goes to wait on the condition.
Wait == -2
\* (a read_until that returns nothing at the deadline)
UntilCutEmptyAtDeadline(b, delimiter, max_bytes, expired) ==
    LET idx == Find(b, delimiter)
    IN  IF idx # -1 THEN Min(idx + Len(delimiter), max_bytes)
        ELSE IF Len(b) >= max_bytes THEN max_bytes
        ELSE IF expired THEN 0
        ELSE Wait
\* (a read_until that stops in front of the delimiter)
UntilCutBeforeDelimiter(b, delimiter, max_bytes, expired) ==
    LET idx == Find(b, delimiter)
    IN  IF idx # -1 THEN Min(idx, max_bytes)
        ELSE IF Len(b) >= max_bytes THEN max_bytes
        ELSE IF expired THEN Min(Len(b), max_bytes)
        ELSE Wait
UntilCut(b, delimiter, max_bytes, expired) ==
    LET idx == Find(b, delimiter)
    IN  IF idx # -1 THEN Min(idx + Len(delimiter), max_bytes)
        ELSE IF Len(b) >= max_bytes THEN max_bytes
        ELSE IF expired THEN Min(Len(b), max_bytes)
        ELSE Wait

\* SerialBuffer.read_until, "result = bytes(self._buf[:end])" and
\* "del self._buf[:end]" (the same pair at each of its three exits).
UntilResult(b, cut) == PyPrefix(b, cut)
\* (a read_until that deletes one byte less than it returned)
UntilRestOffByOne(b, cut) == PyDelPrefix(b, IF cut > 0 THEN cut - 1 ELSE cut)
UntilRest(b, cut) == PyDelPrefix(b, cut)

\* A consumer call returns result and leaves rest in the buffer.
Return(c, result, rest) ==
    /\ buf' = rest
    /\ delivered' = delivered \o result
    /\ cpc' = [cpc EXCEPT ![c] = "idle"]
    /\ call' = [call EXCEPT ![c] = NoCall]
    /\ woken' = woken \ {c}
    /\ UNCHANGED <<written, evicted, loopVars, wrVars, teeVars, sessVars, plugVars, flushVars, regVars>>

\* A consumer call enters Condition.wait with the given parameters.
Block(c, params) ==
    /\ cpc' = [cpc EXCEPT ![c] = "waiting"]
    /\ call' = [call EXCEPT ![c] = params]
    /\ woken' = woken \ {c}
    /\ UNCHANGED <<buf, written, delivered, evicted, loopVars, wrVars, teeVars, sessVars, plugVars, flushVars, regVars>>

\* (a read that goes back to wait although its deadline is over)
ReadPassIgnoresDeadline(c, nbytes, left) ==
    IF buf # <<>>
    THEN Return(c, ReadResult(buf, nbytes), ReadRest(buf, nbytes))
    ELSE Block(c, [op |-> "read", n |-> nbytes, left |-> left])
\* SerialBuffer.read(nbytes, timeout), one pass under the lock: from the call
\* (expired: the timeout is already over) or after a wake-up.
ReadPass(c, nbytes, left) ==
    IF buf # <<>>
    THEN Return(c, ReadResult(buf, nbytes), ReadRest(buf, nbytes))
    ELSE IF left <= 0
         THEN Return(c, <<>>, buf)
         ELSE Block(c, [op |-> "read", n |-> nbytes, left |-> left])

ReadCall(c, nbytes, timeout) ==
    /\ cpc[c] = "idle"
    /\ ReadPass(c, nbytes, timeout)
    /\ UNCHANGED ret

ReadResume(c) ==
    /\ cpc[c] = "waiting"
    /\ call[c].op = "read"
    /\ c \in woken \/ call[c].left = 0
    /\ ReadPass(c, call[c].n, call[c].left)
    /\ UNCHANGED ret

\* SerialBuffer.read_until(delimiter, max_bytes, timeout), one pass.
ReadUntilPass(c, delimiter, max_bytes, left) ==
    LET cut == UntilCut(buf, delimiter, max_bytes, left <= 0)
    IN  IF cut # Wait
        THEN Return(c, UntilResult(buf, cut), UntilRest(buf, cut))
        ELSE Block(c, [op |-> "read_until", d |-> delimiter,
                       n |-> max_bytes, left |-> left])

ReadUntilCall(c, delimiter, max_bytes, timeout) ==
    /\ cpc[c] = "idle"
    /\ ReadUntilPass(c, delimiter, max_bytes, timeout)
    /\ UNCHANGED ret

ReadUntilResume(c) ==
    /\ cpc[c] = "waiting"
    /\ call[c].op = "read_until"
    /\ c \in woken \/ call[c].left = 0
    /\ ReadUntilPass(c, call[c].d, call[c].n, call[c].left)
    /\ UNCHANGED ret

\* "raw = await asyncio.to_thread(conn.buffer.read, nbytes, timeout_s)": what
\* the handler gets back when the call returns in this step, next to the
\* arguments of the call, the time left on its deadline, the buffer the
\* returning pass found and the buffer it left.
Raw(c, op, delimiter, n, left) ==
    ret' = IF cpc'[c] = "idle"
           THEN [op |-> op, d |-> delimiter, n |-> n, left |-> left,
                 pre |-> buf, post |-> buf',
                 raw |-> SubSeq(delivered', Len(delivered) + 1, Len(delivered'))]
           ELSE ret

\* "conn = state.get_connection(args["connection_id"])" raises KeyError for a
\* connection that is not registered; the handler returns not_found and
\* touches nothing.
NotFound(c) ==
    /\ ret' = [op |-> "not_found", d |-> <<>>, n |-> 0, left |-> 0,
               pre |-> buf, post |-> buf, raw |-> <<>>]
    /\ UNCHANGED <<buf, written, delivered, evicted, cpc, call, woken, loopVars,
                   wrVars, teeVars, sessVars, plugVars, flushVars, regVars>>

\* handle_read: the connection is looked up, then nbytes goes to
\* SerialBuffer.read with an upper clamp only (MAX_READ_BYTES lies beyond
\* every size used here).
HandleRead(c, nbytes, timeout) ==
    /\ cpc[c] = "idle"
    /\ IF registered
       THEN /\ ReadPass(c, nbytes, timeout)
            /\ Raw(c, "read", <<>>, nbytes, timeout)
       ELSE NotFound(c)

HandleReadResume(c) ==
    /\ cpc[c] = "waiting"
    /\ call[c].op = "read"
    /\ c \in woken \/ call[c].left = 0
    /\ ReadPass(c, call[c].n, call[c].left)
    /\ Raw(c, "read", <<>>, call[c].n, call[c].left)

\* handle_read_until / handle_readline: the encoded delimiter or newline and
\* max_bytes go to SerialBuffer.read_until, max_bytes with an upper clamp only.
HandleReadUntil(c, delimiter, max_bytes, timeout) ==
    /\ cpc[c] = "idle"
    /\ IF registered
       THEN /\ ReadUntilPass(c, delimiter, max_bytes, timeout)
            /\ Raw(c, "read_until", delimiter, max_bytes, timeout)
       ELSE NotFound(c)

HandleReadUntilResume(c) ==
    /\ cpc[c] = "waiting"
    /\ call[c].op = "read_until"
    /\ c \in woken \/ call[c].left = 0
    /\ ReadUntilPass(c, call[c].d, call[c].n, call[c].left)
    /\ Raw(c, "read_until", call[c].d, call[c].n, call[c].left)

\* The monotonic clock advances for a consumer inside Condition.wait.
Tick(c) ==
    /\ cpc[c] = "waiting"
    /\ call[c].left > 0
    /\ call' = [call EXCEPT ![c].left = @ - 1]
    /\ UNCHANGED <<buf, written, delivered, evicted, cpc, woken, ret, loopVars,
                   wrVars, teeVars, sessVars, plugVars, flushVars, regVars>>

\* SerialBuffer.__init__
BufferInit ==
    /\ buf = <<>>
    /\ written = <<>>
    /\ delivered = <<>>
    /\ evicted = 0
    /\ cpc = [c \in Consumers |-> "idle"]
    /\ call = [c \in Consumers |-> NoCall]
    /\ woken = {}
    /\ ret = NoReturn

\* The connection as handle_open leaves it: the transport open, the reader
\* constructed and started, the connection registered.
ReaderInit ==
    /\ lpc = "test"
    /\ errors = 0
    /\ waiting = 0
    /\ chunk = <<>>
    /\ stopFlag = FALSE
    /\ thread = "set"
    /\ rx = <<>>
    /\ arrived = <<>>
    /\ serOpen = TRUE
    /\ registered = TRUE
    /\ closePc = "idle"
    /\ streak = 0
    /\ failures = 0

\* The write side of a freshly opened connection: nothing written, the lock
\* free ("self.write_lock = threading.Lock()"), no tool call in flight.
WriteSideInit ==
    /\ writeLock = "free"
    /\ tpc = [t \in Tools |-> "idle"]
    /\ tpay = [t \in Tools |-> <<>>]
    /\ tres = [t \in Tools |-> "none"]
    /\ ptyq = <<>>
    /\ ptyIn = 0
    /\ readable = <<>>
    /\ pty_data = <<>>
    /\ wire = <<>>
    /\ pending = 0
    /\ tee = <<>>

\* SerialState.__init__ and the empty slot allocator; no call in flight.
\* The latest step was neither a close nor a status call.
NoInfo == [op |-> "none", connection_id |-> -1, port |-> "none"]

RegistryInit ==
    /\ connections = {}
    /\ objs = <<>>
    /\ mirror_indices_in_use = {}
    /\ links = {}
    /\ opc = [h \in Handlers |-> "idle"]
    /\ oport = [h \in Handlers |-> "none"]
    /\ ores = [h \in Handlers |-> "none"]
    /\ oinfo = NoInfo

\* No MirrorSession yet: descriptor numbers FdNums are free (the numbers the
\* process hands out next), and no alias exists at any link path.
FdNums == 1..(2 * MaxSessions)
LinkIndices == 0..(MaxSessions - 1)
NoSessionCall == [op |-> "none", id |-> 0, raised |-> FALSE, link |-> -1, failed |-> {}]
SessionInit ==
    /\ sessions = <<>>
    /\ fds = [n \in FdNums |-> 0]
    /\ aliases = [i \in LinkIndices |-> 0]
    /\ sinfo = NoSessionCall

\* The server's own tools are registered (server.py builds the lists the
\* PluginManager is given), no plugin is loaded, and the plugins directory
\* holds two valid plugins with one tool each.
PluginNames == {"p", "q"}
ToolNames == {"a", "b"}
CoreTool == [name |-> "core", plugin |-> "server", ver |-> 0]
InitialDisk ==
    [n \in PluginNames |->
        [ok |-> TRUE, tool |-> IF n = "p" THEN "a" ELSE "b", ver |-> 1]]
NoPluginCall == [op |-> "none", name |-> "none", raised |-> "no"]
PluginInit ==
    /\ plugin_tools = <<CoreTool>>
    /\ plugin_handlers = {CoreTool}
    /\ loaded = [n \in {} |-> 0]
    /\ disk = InitialDisk
    /\ pinfo = NoPluginCall

\* No serial.flush call yet.
FlushInit ==
    /\ fpc = "idle"
    /\ fwhat = "none"
    /\ fmark = 0

\* create_reader with mirror_mode "off": a plain ReaderThread.
Init ==
    /\ BufferInit /\ ReaderInit /\ WriteSideInit /\ mode = "off" /\ RegistryInit
    /\ SessionInit /\ PluginInit /\ FlushInit

\* create_reader with mirror_mode "ro" or "rw": a MirrorSession.
MirrorInit ==
    /\ BufferInit /\ ReaderInit /\ WriteSideInit /\ mode \in {"ro", "rw"}
    /\ RegistryInit /\ SessionInit /\ PluginInit /\ FlushInit

BufNext ==
    \/ \E data \in Chunks : Write(data)
    \/ \E c \in Consumers, n \in ReadSizes, t \in Timeouts : ReadCall(c, n, t)
    \/ \E c \in Consumers : ReadResume(c)
    \/ \E c \in Consumers, d \in Delimiters, n \in ReadSizes, t \in Timeouts :
          ReadUntilCall(c, d, n, t)
    \/ \E c \in Consumers : ReadUntilResume(c)
    \/ \E c \in Consumers : Tick(c)

SpecBuf == Init /\ [][BufNext]_vars

\* One client of the read handlers and the producer, each return observed.
Callers == {"c1"}
CallNext ==
    \/ \E data \in Chunks : Write(data)
    \/ \E c \in Callers, n \in ReadSizes, t \in Timeouts : HandleRead(c, n, t)
    \/ \E c \in Callers : HandleReadResume(c)
    \/ \E c \in Callers, d \in Delimiters, n \in ReadSizes, t \in Timeouts :
          HandleReadUntil(c, d, n, t)
    \/ \E c \in Callers : HandleReadUntilResume(c)
    \/ \E c \in Callers : Tick(c)

SpecCall == Init /\ [][CallNext]_vars

\* ----------------------------------------------------------- ReaderThread
\* ReaderThread.alive
Alive == thread # "none" /\ lpc # "dead"

\* "if errors >= self._MAX_CONSECUTIVE_ERRORS"
\* (a threshold test that is off by one)
TooManyErrorsOffByOne(e) == e > MaxConsecutiveErrors
TooManyErrors(e) == e >= MaxConsecutiveErrors

\* "errors = 0" at the end of a successful iteration
\* (a loop that never resets the counter)
ErrorsAfterSuccessKept(e) == e
ErrorsAfterSuccess(e) == 0

\* The transport receives one byte from the device.
Arrive(b) ==
    /\ serOpen
    /\ Len(arrived) < MaxArrive
    /\ rx' = Append(rx, b)
    /\ arrived' = Append(arrived, b)
    /\ UNCHANGED <<bufVars, wrVars, teeVars, sessVars, plugVars, flushVars, regVars, lpc, errors, waiting, chunk, stopFlag, thread,
                   serOpen, registered, closePc, streak, failures>>

\* "while not self._stop.is_set()"
LoopTest ==
    /\ lpc = "test"
    /\ lpc' = IF stopFlag THEN "dead" ELSE "in_waiting"
    /\ UNCHANGED <<bufVars, wrVars, teeVars, sessVars, plugVars, flushVars, regVars, errors, waiting, chunk, stopFlag, thread, rx,
                   arrived, serOpen, registered, closePc, streak, failures>>

\* A transport call raises: control goes to the except clause.
Raise ==
    /\ lpc' = "except"
    /\ streak' = streak + 1
    /\ failures' = failures + 1
    /\ UNCHANGED <<bufVars, wrVars, teeVars, sessVars, plugVars, flushVars, regVars, errors, waiting, chunk, stopFlag, thread, rx,
                   arrived, serOpen, registered, closePc>>

\* The transport may fail at any call while the error budget of the
\* behaviour lasts, and fails once it is closed.
MayRaise == failures < MaxFailures \/ ~serOpen
MayReturn == serOpen

\* "waiting = self.ser.in_waiting"
LoopInWaiting ==
    /\ lpc = "in_waiting"
    /\ \/ MayRaise /\ Raise
       \/ /\ MayReturn
          /\ waiting' = Len(rx)
          /\ lpc' = "read"
          /\ UNCHANGED <<bufVars, wrVars, teeVars, sessVars, plugVars, flushVars, regVars, errors, chunk, stopFlag, thread, rx, arrived,
                         serOpen, registered, closePc, streak, failures>>

\* "data = self.ser.read(waiting)" or, with nothing waiting,
\* "data = self.ser.read(1)", which returns empty at the transport's timeout.
LoopRead ==
    /\ lpc = "read"
    /\ \/ MayRaise /\ Raise
       \/ /\ MayReturn
          /\ LET n == Min(IF waiting > 0 THEN waiting ELSE 1, Len(rx))
             IN  /\ chunk' = SubSeq(rx, 1, n)
                 /\ rx' = SubSeq(rx, n + 1, Len(rx))
          /\ lpc' = "on_data"
          /\ UNCHANGED <<bufVars, wrVars, teeVars, sessVars, plugVars, flushVars, regVars, errors, waiting, stopFlag, thread, arrived,
                         serOpen, registered, closePc, streak, failures>>

\* (a loop that throws away what the blocking read(1) returned)
LoopOnDataDropsBlockingRead ==
    /\ lpc = "on_data"
    /\ IF waiting > 0 THEN BufferWrite(chunk)
       ELSE UNCHANGED <<buf, written, evicted, woken>>
    /\ errors' = ErrorsAfterSuccess(errors)
    /\ streak' = 0
    /\ chunk' = <<>>
    /\ lpc' = "test"
    /\ UNCHANGED <<delivered, cpc, call, ret, wrVars, teeVars, sessVars, plugVars, flushVars, regVars, waiting, stopFlag, thread, rx,
                   arrived, serOpen, registered, closePc, failures>>
\* "if data: self._on_data(data)" and "errors = 0"
LoopOnData ==
    /\ lpc = "on_data"
    /\ BufferWrite(chunk)
    /\ errors' = ErrorsAfterSuccess(errors)
    /\ streak' = 0
    /\ chunk' = <<>>
    /\ lpc' = "test"
    /\ UNCHANGED <<delivered, cpc, call, ret, wrVars, teeVars, sessVars, plugVars, flushVars, regVars, waiting, stopFlag, thread, rx,
                   arrived, serOpen, registered, closePc, failures>>

\* (a loop that takes its connection out of the registry when it gives up)
LoopExceptUnregisters ==
    /\ lpc = "except"
    /\ IF stopFlag
       THEN lpc' = "dead" /\ errors' = errors /\ registered' = registered
       ELSE /\ errors' = errors + 1
            /\ lpc' = IF TooManyErrors(errors + 1) THEN "dead" ELSE "sleep"
            /\ registered' = (registered /\ ~TooManyErrors(errors + 1))
    /\ UNCHANGED <<bufVars, wrVars, teeVars, sessVars, plugVars, flushVars, regVars, waiting, chunk, stopFlag, thread, rx, arrived,
                   serOpen, closePc, streak, failures>>
\* (a loop that counts and backs off whether or not it was told to stop)
LoopExceptIgnoresStop ==
    /\ lpc = "except"
    /\ errors' = errors + 1
    /\ lpc' = IF TooManyErrors(errors + 1) THEN "dead" ELSE "sleep"
    /\ UNCHANGED <<bufVars, wrVars, teeVars, sessVars, plugVars, flushVars, regVars, waiting, chunk, stopFlag, thread, rx, arrived,
                   serOpen, registered, closePc, streak, failures>>
\* "except Exception:" up to the break or the sleep
LoopExcept ==
    /\ lpc = "except"
    /\ IF stopFlag
       THEN lpc' = "dead" /\ errors' = errors
       ELSE /\ errors' = errors + 1
            /\ lpc' = IF TooManyErrors(errors + 1) THEN "dead" ELSE "sleep"
    /\ UNCHANGED <<bufVars, wrVars, teeVars, sessVars, plugVars, flushVars, regVars, waiting, chunk, stopFlag, thread, rx, arrived,
                   serOpen, registered, closePc, streak, failures>>

\* "time.sleep(0.1)" is over
LoopSleep ==
    /\ lpc = "sleep"
    /\ lpc' = "test"
    /\ UNCHANGED <<bufVars, wrVars, teeVars, sessVars, plugVars, flushVars, regVars, errors, waiting, chunk, stopFlag, thread, rx,
                   arrived, serOpen, registered, closePc, streak, failures>>

\* SerialState.close_connection: remove_connection, then reader.stop() up to
\* the join ("self._stop.set()"); nothing here suspends the event loop.
CloseBegin ==
    /\ closePc = "idle"
    /\ registered
    /\ registered' = FALSE
    /\ stopFlag' = TRUE
    /\ closePc' = "join"
    /\ UNCHANGED <<bufVars, wrVars, teeVars, sessVars, plugVars, flushVars, regVars, lpc, errors, waiting, chunk, thread, rx, arrived,
                   serOpen, streak, failures>>

\* "self._thread.join(timeout=3)" returns, the thread ended or not, and
\* "self._thread = None"
CloseJoin ==
    /\ closePc = "join"
    /\ thread' = "none"
    /\ closePc' = "ser_close"
    /\ UNCHANGED <<bufVars, wrVars, teeVars, sessVars, plugVars, flushVars, regVars, lpc, errors, waiting, chunk, stopFlag, rx, arrived,
                   serOpen, registered, streak, failures>>

\* "if conn.ser.is_open: conn.ser.close()"
CloseSer ==
    /\ closePc = "ser_close"
    /\ serOpen' = FALSE
    /\ closePc' = "done"
    /\ UNCHANGED <<bufVars, wrVars, teeVars, sessVars, plugVars, flushVars, regVars, lpc, errors, waiting, chunk, stopFlag, thread, rx,
                   arrived, registered, streak, failures>>

LoopNext ==
    \/ \E b \in Byte : Arrive(b)
    \/ LoopTest
    \/ LoopInWaiting
    \/ LoopRead
    \/ LoopOnData
    \/ LoopExcept
    \/ LoopSleep
    \/ CloseBegin
    \/ CloseJoin
    \/ CloseSer

SpecLoop == Init /\ [][LoopNext]_vars

\* handle_flush up to its first await: the connection is looked up and what
\* is read. The bytes the transport has received by now are the ones the
\* flush is to discard.
FlushBegin(what) ==
    /\ fpc = "idle"
    /\ registered
    /\ fwhat' = what
    /\ fmark' = Len(arrived)
    /\ fpc' = IF what \in {"input", "both"} THEN "reset_input" ELSE "reset_output"
    /\ UNCHANGED <<bufVars, loopVars, wrVars, teeVars, regVars, sessVars, plugVars>>

\* "await asyncio.to_thread(conn.ser.reset_input_buffer)": the worker thread
\* empties the transport's input queue.
FlushResetInput ==
    /\ fpc = "reset_input"
    /\ rx' = <<>>
    /\ fpc' = "clear"
    /\ UNCHANGED <<bufVars, wrVars, teeVars, regVars, sessVars, plugVars, fwhat, fmark, lpc,
                   errors, waiting, chunk, stopFlag, thread, arrived, serOpen, registered,
                   closePc, streak, failures>>

\* SerialBuffer.clear: "self._buf.clear()"
BufferAfterClear(b) == <<>>

\* "conn.buffer.clear()" once the worker thread is back, and the return for
\* what = "input".
FlushClear ==
    /\ fpc = "clear"
    /\ buf' = BufferAfterClear(buf)
    /\ fpc' = IF fwhat = "both" THEN "reset_output" ELSE "done"
    /\ UNCHANGED <<written, delivered, evicted, cpc, call, woken, ret, loopVars, wrVars,
                   teeVars, regVars, sessVars, plugVars, fwhat, fmark>>

\* "await asyncio.to_thread(conn.ser.reset_output_buffer)" and the return.
FlushResetOutput ==
    /\ fpc = "reset_output"
    /\ pending' = 0
    /\ fpc' = "done"
    /\ UNCHANGED <<bufVars, loopVars, teeVars, regVars, sessVars, plugVars, fwhat, fmark, mode,
                   tres, writeLock, tpc, tpay, ptyq, ptyIn, readable, pty_data, wire>>

\* The ingest loop, a device whose n-th byte has the value n, one
\* serial.flush call, and a client that reads without waiting once the flush
\* has returned.
FlushWhats == {"input", "output", "both"}
FlushNext ==
    \/ Arrive(Len(arrived) + 1)
    \/ LoopTest
    \/ LoopInWaiting
    \/ LoopRead
    \/ LoopOnData
    \/ LoopExcept
    \/ LoopSleep
    \/ \E what \in FlushWhats : FlushBegin(what)
    \/ FlushResetInput
    \/ FlushClear
    \/ FlushResetOutput
    \/ \E c \in Callers : fpc = "done" /\ HandleRead(c, MaxN, 0)

SpecFlush == Init /\ [][FlushNext]_vars

\* The ingest loop, the close of its connection, and one client of the read
\* handlers that calls them on that connection once the loop has ended,
\* asking for one byte or for MaxN bytes, or for a record that ends in 1.
StaleSizes == {1, MaxN}
StaleDelimiters == {<<1>>}
StaleNext ==
    \/ LoopNext
    \/ \E c \in Callers, n \in StaleSizes, t \in Timeouts :
          lpc = "dead" /\ HandleRead(c, n, t)
    \/ \E c \in Callers : lpc = "dead" /\ HandleReadResume(c)
    \/ \E c \in Callers, d \in StaleDelimiters, n \in StaleSizes,
          t \in Timeouts : lpc = "dead" /\ HandleReadUntil(c, d, n, t)
    \/ \E c \in Callers : lpc = "dead" /\ HandleReadUntilResume(c)
    \/ \E c \in Callers : lpc = "dead" /\ Tick(c)

SpecStale == Init /\ [][StaleNext]_vars

\* The producer, two consumers and the close of the connection, under a
\* fair schedule: a consumer that can run again after Condition.wait (it was
\* notified, or its timeout is over) does run, and the monotonic clock
\* advances for a consumer that waits. The producer writes single bytes; the
\* consumers ask for MaxN bytes, or for a record of at most MaxN bytes that
\* ends in 1.
WaitChunks == {<<0>>, <<1>>}
WaitSizes == {MaxN}
WaitDelimiters == {<<1>>}
WaitNext ==
    \/ \E data \in WaitChunks : Write(data)
    \/ \E c \in Consumers, n \in WaitSizes, t \in Timeouts : ReadCall(c, n, t)
    \/ \E c \in Consumers : ReadResume(c)
    \/ \E c \in Consumers, d \in WaitDelimiters, n \in WaitSizes,
          t \in Timeouts : ReadUntilCall(c, d, n, t)
    \/ \E c \in Consumers : ReadUntilResume(c)
    \/ \E c \in Consumers : Tick(c)
    \/ CloseBegin
    \/ CloseJoin
    \/ CloseSer

Fairness ==
    \A c \in Consumers :
        /\ WF_vars(ReadResume(c))
        /\ WF_vars(ReadUntilResume(c))
        /\ WF_vars(Tick(c))

SpecWait == Init /\ [][WaitNext]_vars /\ Fairness

\* ------------------------------------------- the transport's write side
\* The variables of the reader other than its thread's position.
loopRest == <<errors, waiting, chunk, stopFlag, thread, rx, arrived, serOpen,
              registered, closePc, streak, failures>>

\* A chunk handed to ser.write by writer w, each byte with its place in the
\* chunk. The byte values play no part on the write side: a byte that came
\* through the PTY is known by the position at which the external process
\* wrote it (id), a tool's byte has id 0.
Outgoing(w, ids) ==
    [k \in 1..Len(ids) |-> [by |-> w, k |-> k, of |-> Len(ids), id |-> ids[k]]]

\* Payload bytes of tool calls, written or still to be written.
ToolBytes ==
    Cardinality({i \in 1..Len(wire) : wire[i].by # "mirror"})
    + Len(tpay["t1"]) + Len(tpay["t2"])

\* handle_write up to "await asyncio.to_thread(_locked_write)": the payload
\* is built and the write runs on a worker thread.
ToolCall(t, len) ==
    /\ tpc[t] = "idle"
    /\ registered
    /\ ToolBytes + len <= MaxToolBytes
    /\ tpay' = [tpay EXCEPT ![t] = Outgoing(t, [k \in 1..len |-> 0])]
    /\ tpc' = [tpc EXCEPT ![t] = "acquire"]
    /\ tres' = [tres EXCEPT ![t] = "none"]
    /\ UNCHANGED <<bufVars, loopVars, teeVars, sessVars, plugVars, flushVars, regVars, mode, writeLock, ptyq, ptyIn, readable,
                   pty_data, wire, pending>>

\* (a tool write that finds no lock to take: "lock = None")
ToolAcquireNoLock(t) ==
    /\ tpc[t] = "acquire"
    /\ tpc' = [tpc EXCEPT ![t] = "write"]
    /\ UNCHANGED <<bufVars, loopVars, teeVars, sessVars, plugVars, flushVars, regVars, mode, tres, writeLock, tpay, ptyq, ptyIn,
                   readable, pty_data, wire, pending>>
\* _locked_write: "lock.acquire()"
ToolAcquire(t) ==
    /\ tpc[t] = "acquire"
    /\ writeLock = "free"
    /\ writeLock' = t
    /\ tpc' = [tpc EXCEPT ![t] = "write"]
    /\ UNCHANGED <<bufVars, loopVars, teeVars, sessVars, plugVars, flushVars, regVars, mode, tres, tpay, ptyq, ptyIn, readable,
                   pty_data, wire, pending>>

\* (a tool write that gives the lock back before it flushes)
ToolWriteReleasesEarly(t) ==
    /\ tpc[t] = "write"
    /\ wire' = Append(wire, Head(tpay[t]))
    /\ pending' = pending + 1
    /\ tpay' = [tpay EXCEPT ![t] = Tail(@)]
    /\ tpc' = [tpc EXCEPT ![t] = IF Len(tpay[t]) = 1 THEN "flush" ELSE "write"]
    /\ writeLock' = IF Len(tpay[t]) = 1 THEN "free" ELSE writeLock
    /\ UNCHANGED <<bufVars, loopVars, teeVars, sessVars, plugVars, flushVars, regVars, mode, tres, ptyq, ptyIn, readable, pty_data>>
\* _locked_write: "n = conn.ser.write(payload)", the transport putting the
\* payload out byte by byte.
ToolWrite(t) ==
    /\ tpc[t] = "write"
    /\ wire' = Append(wire, Head(tpay[t]))
    /\ pending' = pending + 1
    /\ tpay' = [tpay EXCEPT ![t] = Tail(@)]
    /\ tpc' = [tpc EXCEPT ![t] = IF Len(tpay[t]) = 1 THEN "flush" ELSE "write"]
    /\ UNCHANGED <<bufVars, loopVars, teeVars, sessVars, plugVars, flushVars, regVars, mode, tres, writeLock, ptyq, ptyIn, readable,
                   pty_data>>

\* _locked_write: "conn.ser.flush()"
ToolFlush(t) ==
    /\ tpc[t] = "flush"
    /\ pending' = 0
    /\ tpc' = [tpc EXCEPT ![t] = "release"]
    /\ UNCHANGED <<bufVars, loopVars, teeVars, sessVars, plugVars, flushVars, regVars, mode, tres, writeLock, tpay, ptyq, ptyIn,
                   readable, pty_data, wire>>

\* _locked_write: "finally: lock.release()", and handle_write returns.
ToolRelease(t) ==
    /\ tpc[t] = "release"
    /\ writeLock' = "free"
    /\ tpc' = [tpc EXCEPT ![t] = "idle"]
    /\ tres' = [tres EXCEPT ![t] = "ok"]
    /\ UNCHANGED <<bufVars, loopVars, teeVars, sessVars, plugVars, flushVars, regVars, mode, tpay, ptyq, ptyIn, readable,
                   pty_data, wire, pending>>

\* _locked_write: "conn.ser.write(payload)" raises (SerialTimeoutException
\* at the write timeout, SerialException when the device is gone), with none,
\* some or all of the payload put out; the exception is on its way to the
\* finally clause.
ToolWriteFails(t) ==
    /\ tpc[t] = "write"
    /\ tpay' = [tpay EXCEPT ![t] = <<>>]
    /\ tpc' = [tpc EXCEPT ![t] = "unwind"]
    /\ UNCHANGED <<bufVars, loopVars, teeVars, sessVars, plugVars, flushVars, regVars, mode, tres, writeLock, ptyq, ptyIn,
                   readable, pty_data, wire, pending>>

\* _locked_write: "conn.ser.flush()" raises
ToolFlushFails(t) ==
    /\ tpc[t] = "flush"
    /\ tpc' = [tpc EXCEPT ![t] = "unwind"]
    /\ UNCHANGED <<bufVars, loopVars, teeVars, sessVars, plugVars, flushVars, regVars, mode, tres, writeLock, tpay, ptyq,
                   ptyIn, readable, pty_data, wire, pending>>

\* (a write whose exception leaves the worker without passing a finally)
ToolUnwindKeepsLock(t) ==
    /\ tpc[t] = "unwind"
    /\ tpc' = [tpc EXCEPT ![t] = "idle"]
    /\ tres' = [tres EXCEPT ![t] = "io_error"]
    /\ UNCHANGED <<bufVars, loopVars, teeVars, sessVars, plugVars, flushVars, regVars, mode, writeLock, tpay, ptyq, ptyIn,
                   readable, pty_data, wire, pending>>
\* _locked_write: "finally: lock.release()" with the exception in flight; it
\* leaves to_thread and handle_write, and _call_tool reports the
\* SerialException as io_error.
ToolUnwind(t) ==
    /\ tpc[t] = "unwind"
    /\ writeLock' = "free"
    /\ tpc' = [tpc EXCEPT ![t] = "idle"]
    /\ tres' = [tres EXCEPT ![t] = "io_error"]
    /\ UNCHANGED <<bufVars, loopVars, teeVars, sessVars, plugVars, flushVars, regVars, mode, tpay, ptyq, ptyIn, readable,
                   pty_data, wire, pending>>

\* ---------------------------------------------------------- MirrorSession
\* An external process writes one byte to the PTY slave.
PtyWrite ==
    /\ mode # "off"
    /\ ptyIn < MaxPty
    /\ ptyq' = Append(ptyq, ptyIn + 1)
    /\ ptyIn' = ptyIn + 1
    /\ UNCHANGED <<bufVars, loopVars, teeVars, sessVars, plugVars, flushVars, regVars, mode, tres, writeLock, tpc, tpay, readable,
                   pty_data, wire, pending>>

\* "read_fds = [ser_fd, self._master_fd] if self.mode == "rw" else [ser_fd]"
\* (a loop that waits on the PTY master in either mode)
ReadFdsBothInEveryMode == <<"ser", "master">>
ReadFds == IF mode = "rw" THEN <<"ser", "master">> ELSE <<"ser">>

\* Whether descriptor fd has bytes to read.
Ready(fd) == IF fd = "ser" THEN rx # <<>> ELSE ptyq # <<>>

\* The descriptors of s that are ready, in the order of s.
RECURSIVE ReadyOf(_)
ReadyOf(s) ==
    IF s = <<>> THEN <<>>
    ELSE (IF Ready(Head(s)) THEN <<Head(s)>> ELSE <<>>) \o ReadyOf(Tail(s))

\* MirrorSession._run: "while not self._stop.is_set()"
MirrorTest ==
    /\ mode # "off"
    /\ lpc = "test"
    /\ lpc' = IF stopFlag THEN "dead" ELSE "select"
    /\ UNCHANGED <<bufVars, wrVars, teeVars, sessVars, plugVars, flushVars, regVars, loopRest>>

\* "readable, _, _ = select.select(read_fds, [], [], 0.05)": the ready
\* descriptors, none when the 50 ms pass first.
MirrorSelect ==
    /\ lpc = "select"
    /\ readable' = ReadyOf(ReadFds)
    /\ lpc' = "dispatch"
    /\ UNCHANGED <<bufVars, loopRest, teeVars, sessVars, plugVars, flushVars, regVars, mode, tres, writeLock, tpc, tpay, ptyq, ptyIn,
                   pty_data, wire, pending>>

\* "select.select(...)" raises OSError or ValueError (a descriptor closed
\* under the thread): "if self._stop.is_set(): break", else the sleep.
MirrorSelectFails ==
    /\ lpc = "select"
    /\ lpc' = IF stopFlag THEN "dead" ELSE "sel_sleep"
    /\ UNCHANGED <<bufVars, wrVars, teeVars, sessVars, plugVars, flushVars, regVars, loopRest>>

\* "time.sleep(0.1)" is over, "continue"
MirrorSelectSleep ==
    /\ lpc = "sel_sleep"
    /\ lpc' = "test"
    /\ UNCHANGED <<bufVars, wrVars, teeVars, sessVars, plugVars, flushVars, regVars, loopRest>>

\* "for fd in readable:" takes the next descriptor, or the loop is over.
MirrorDispatch ==
    /\ lpc = "dispatch"
    /\ IF readable = <<>>
       THEN lpc' = "test" /\ readable' = readable
       ELSE /\ lpc' = IF Head(readable) = "ser" THEN "m_in_waiting" ELSE "pty_read"
            /\ readable' = Tail(readable)
    /\ UNCHANGED <<bufVars, loopRest, teeVars, sessVars, plugVars, flushVars, regVars, mode, tres, writeLock, tpc, tpay, ptyq, ptyIn,
                   pty_data, wire, pending>>

\* "waiting = self.ser.in_waiting"
MirrorInWaiting ==
    /\ lpc = "m_in_waiting"
    /\ waiting' = Len(rx)
    /\ lpc' = "m_read"
    /\ UNCHANGED <<bufVars, wrVars, teeVars, sessVars, plugVars, flushVars, regVars, errors, chunk, stopFlag, thread,
                   rx, arrived, serOpen, registered, closePc, streak, failures>>

\* "data = self.ser.read(waiting or 1)" and "if data:"
MirrorSerRead ==
    /\ lpc = "m_read"
    /\ LET n == Min(IF waiting > 0 THEN waiting ELSE 1, Len(rx))
       IN  /\ chunk' = SubSeq(rx, 1, n)
           /\ rx' = SubSeq(rx, n + 1, Len(rx))
           /\ lpc' = IF n = 0 THEN "dispatch" ELSE "m_on_data"
    /\ UNCHANGED <<bufVars, wrVars, teeVars, sessVars, plugVars, flushVars, regVars, errors, waiting, stopFlag, thread,
                   arrived, serOpen, registered, closePc, streak, failures>>

\* The transport call of the branch raises: "except Exception:", the thread
\* returns when it was told to stop and sleeps otherwise.
MirrorSerFails ==
    /\ lpc \in {"m_in_waiting", "m_read"}
    /\ lpc' = IF stopFlag THEN "dead" ELSE "m_sleep"
    /\ UNCHANGED <<bufVars, wrVars, teeVars, sessVars, plugVars, flushVars, regVars, loopRest>>

\* "time.sleep(0.1)" is over, the for loop goes on
MirrorSleep ==
    /\ lpc = "m_sleep"
    /\ lpc' = "dispatch"
    /\ UNCHANGED <<bufVars, wrVars, teeVars, sessVars, plugVars, flushVars, regVars, loopRest>>

\* MirrorSession._on_data: "self.buffer.write(data)"
MirrorOnData ==
    /\ lpc = "m_on_data"
    /\ BufferWrite(chunk)
    /\ lpc' = "m_tee"
    /\ UNCHANGED <<delivered, cpc, call, ret, wrVars, teeVars, sessVars, plugVars, flushVars, regVars, loopRest>>

\* (a tee whose OSError ends the thread)
MirrorTeeFailsEndsLoop ==
    /\ lpc = "m_tee"
    /\ chunk' = <<>>
    /\ lpc' = "dead"
    /\ UNCHANGED <<bufVars, wrVars, teeVars, sessVars, plugVars, flushVars, regVars, errors, waiting, stopFlag, thread,
                   rx, arrived, serOpen, registered, closePc, streak, failures>>
\* MirrorSession._on_data: "os.write(self._master_fd, data)" raises OSError,
\* "except OSError: pass"
MirrorTeeFails ==
    /\ lpc = "m_tee"
    /\ chunk' = <<>>
    /\ lpc' = "dispatch"
    /\ UNCHANGED <<bufVars, wrVars, teeVars, sessVars, plugVars, flushVars, regVars, errors, waiting, stopFlag, thread,
                   rx, arrived, serOpen, registered, closePc, streak, failures>>

\* MirrorSession._on_data: "os.write(self._master_fd, data)"; the bytes are
\* the ones buffer.write has just appended, and keep their positions.
MirrorTee ==
    /\ lpc = "m_tee"
    /\ tee' = tee \o SubSeq(written, (Len(written) - Len(chunk)) + 1, Len(written))
    /\ chunk' = <<>>
    /\ lpc' = "dispatch"
    /\ UNCHANGED <<bufVars, wrVars, regVars, sessVars, plugVars, flushVars, errors, waiting, stopFlag, thread,
                   rx, arrived, serOpen, registered, closePc, streak, failures>>

\* "pty_data = os.read(self._master_fd, 4096)" and "if pty_data:"
MirrorPtyRead ==
    /\ lpc = "pty_read"
    /\ pty_data' = Outgoing("mirror", ptyq)
    /\ ptyq' = <<>>
    /\ lpc' = IF ptyq = <<>> THEN "dispatch" ELSE "fwd_acquire"
    /\ UNCHANGED <<bufVars, loopRest, teeVars, sessVars, plugVars, flushVars, regVars, mode, tres, writeLock, tpc, tpay, ptyIn,
                   readable, wire, pending>>

\* "pty_data = os.read(self._master_fd, 4096)" raises OSError:
\* "except OSError: pass"
MirrorPtyReadFails ==
    /\ lpc = "pty_read"
    /\ lpc' = "dispatch"
    /\ UNCHANGED <<bufVars, loopRest, wrVars, teeVars, sessVars, plugVars, flushVars, regVars>>

\* "with self.write_lock:" is entered
MirrorAcquire ==
    /\ lpc = "fwd_acquire"
    /\ writeLock = "free"
    /\ writeLock' = "mirror"
    /\ lpc' = "fwd_write"
    /\ UNCHANGED <<bufVars, loopRest, teeVars, sessVars, plugVars, flushVars, regVars, mode, tres, tpc, tpay, ptyq, ptyIn, readable,
                   pty_data, wire, pending>>

\* "self.ser.write(pty_data)", the transport putting the bytes out one by one
MirrorWrite ==
    /\ lpc = "fwd_write"
    /\ wire' = Append(wire, Head(pty_data))
    /\ pending' = pending + 1
    /\ pty_data' = Tail(pty_data)
    /\ lpc' = IF Len(pty_data) = 1 THEN "fwd_release" ELSE "fwd_write"
    /\ UNCHANGED <<bufVars, loopRest, teeVars, sessVars, plugVars, flushVars, regVars, mode, tres, writeLock, tpc, tpay, ptyq, ptyIn,
                   readable>>

\* "self.ser.write(pty_data)" raises before a byte is out (a write timeout,
\* the device gone: SerialException is an OSError): the with block gives the
\* lock back and "except OSError: pass" ends the branch; pty_data is not
\* used again.
MirrorWriteFails ==
    /\ lpc = "fwd_write"
    /\ Head(pty_data).k = 1
    /\ pty_data' = <<>>
    /\ writeLock' = "free"
    /\ lpc' = "dispatch"
    /\ UNCHANGED <<bufVars, loopRest, teeVars, sessVars, plugVars, flushVars, regVars, mode, tres, tpc, tpay, ptyq, ptyIn, readable,
                   wire, pending>>

\* "with self.write_lock:" is left
MirrorRelease ==
    /\ lpc = "fwd_release"
    /\ writeLock' = "free"
    /\ lpc' = "dispatch"
    /\ UNCHANGED <<bufVars, loopRest, teeVars, sessVars, plugVars, flushVars, regVars, mode, tres, tpc, tpay, ptyq, ptyIn, readable,
                   pty_data, wire, pending>>

WriteNext ==
    \/ \E t \in Tools, len \in PayloadLengths : ToolCall(t, len)
    \/ \E t \in Tools : ToolAcquire(t)
    \/ \E t \in Tools : ToolWrite(t)
    \/ \E t \in Tools : ToolFlush(t)
    \/ \E t \in Tools : ToolRelease(t)
    \/ PtyWrite
    \/ MirrorTest
    \/ MirrorSelect
    \/ MirrorDispatch
    \/ MirrorPtyRead
    \/ MirrorPtyReadFails
    \/ MirrorAcquire
    \/ MirrorWrite
    \/ MirrorWriteFails
    \/ MirrorRelease

SpecWrite == MirrorInit /\ [][WriteNext]_vars

\* The session alone: the device, the external process on the PTY and the
\* loop with both of its branches.
MirrorNext ==
    \/ \E b \in Byte : Arrive(b)
    \/ PtyWrite
    \/ MirrorTest
    \/ MirrorSelect
    \/ MirrorDispatch
    \/ MirrorInWaiting
    \/ MirrorSerRead
    \/ MirrorSerFails
    \/ MirrorSleep
    \/ MirrorOnData
    \/ MirrorTee
    \/ MirrorTeeFails
    \/ MirrorPtyRead
    \/ MirrorPtyReadFails
    \/ MirrorAcquire
    \/ MirrorWrite
    \/ MirrorWriteFails
    \/ MirrorRelease

SpecMirror == MirrorInit /\ [][MirrorNext]_vars

\* Either loop, the device, the external process on the PTY and the close of
\* the connection, which calls stop(). The loop's thread is scheduled: a
\* transport call, a select or a sleep it is in returns or raises.
AnyInit ==
    /\ BufferInit /\ ReaderInit /\ WriteSideInit
    /\ mode \in {"off", "ro", "rw"}
    /\ RegistryInit /\ SessionInit /\ PluginInit /\ FlushInit

PlainStep ==
    /\ mode = "off"
    /\ \/ LoopTest
       \/ LoopInWaiting
       \/ LoopRead
       \/ LoopOnData
       \/ LoopExcept
       \/ LoopSleep

MirrorStep ==
    \/ MirrorTest
    \/ MirrorSelect
    \/ MirrorSelectFails
    \/ MirrorSelectSleep
    \/ MirrorDispatch
    \/ MirrorInWaiting
    \/ MirrorSerRead
    \/ MirrorSerFails
    \/ MirrorSleep
    \/ MirrorOnData
    \/ MirrorTee
    \/ MirrorTeeFails
    \/ MirrorPtyRead
    \/ MirrorPtyReadFails
    \/ MirrorAcquire
    \/ MirrorWrite
    \/ MirrorWriteFails
    \/ MirrorRelease

\* What the bytes are plays no part in stopping.
StopBytes == {1}

StopNext ==
    \/ \E b \in StopBytes : Arrive(b)
    \/ PtyWrite
    \/ mode = "off" /\ LoopTest
    \/ mode = "off" /\ LoopInWaiting
    \/ mode = "off" /\ LoopRead
    \/ mode = "off" /\ LoopOnData
    \/ mode = "off" /\ LoopExcept
    \/ mode = "off" /\ LoopSleep
    \/ MirrorTest
    \/ MirrorSelect
    \/ MirrorSelectFails
    \/ MirrorSelectSleep
    \/ MirrorDispatch
    \/ MirrorInWaiting
    \/ MirrorSerRead
    \/ MirrorSerFails
    \/ MirrorSleep
    \/ MirrorOnData
    \/ MirrorTee
    \/ MirrorTeeFails
    \/ MirrorPtyRead
    \/ MirrorPtyReadFails
    \/ MirrorAcquire
    \/ MirrorWrite
    \/ MirrorWriteFails
    \/ MirrorRelease
    \/ CloseBegin
    \/ CloseJoin
    \/ CloseSer

SpecStop ==
    AnyInit /\ [][StopNext]_vars /\ WF_vars(PlainStep) /\ WF_vars(MirrorStep)

\* The same writers with a transport whose write and flush may raise. The
\* worker thread of a tool call and the mirror loop's thread are scheduled:
\* a step either of them can take is taken in the end; entering the lock is
\* not such a step, since another writer may hold it.
ToolStep(t) ==
    \/ ToolWrite(t)
    \/ ToolWriteFails(t)
    \/ ToolFlush(t)
    \/ ToolFlushFails(t)
    \/ ToolRelease(t)
    \/ ToolUnwind(t)

\* The tools write one byte at a call, and the external process writes a
\* single byte to the PTY.
FailingWriteNext ==
    \/ \E t \in Tools : ToolCall(t, 1)
    \/ \E t \in Tools : ToolAcquire(t)
    \/ \E t \in Tools : ToolWrite(t)
    \/ \E t \in Tools : ToolWriteFails(t)
    \/ \E t \in Tools : ToolFlush(t)
    \/ \E t \in Tools : ToolFlushFails(t)
    \/ \E t \in Tools : ToolRelease(t)
    \/ \E t \in Tools : ToolUnwind(t)
    \/ ptyIn = 0 /\ PtyWrite
    \/ MirrorTest
    \/ MirrorSelect
    \/ MirrorDispatch
    \/ MirrorPtyRead
    \/ MirrorPtyReadFails
    \/ MirrorAcquire
    \/ MirrorWrite
    \/ MirrorWriteFails
    \/ MirrorRelease

SpecFailingWrite ==
    /\ MirrorInit /\ [][FailingWriteNext]_vars
    /\ \A t \in Tools : WF_vars(ToolStep(t))
    /\ WF_vars(MirrorStep)

\* ------------------------------------------------ the connection registry
\* The connection objects handle_open has created so far, registered or not.
Ids == 1..Len(objs)

\* (a validation that forgets the write timeout)
ValidConfigIgnoresWriteTimeout(args) ==
    /\ args.parity \in {"N", "E", "O", "M", "S"}
    /\ args.stopbits \in {"1", "1.5", "2"}
    /\ args.bytesize \in 5..8
    /\ args.timeout_ms >= 0
\* "if parity not in PARITY_MAP" ... "if timeout_ms < 0 or write_timeout_ms < 0"
ValidConfig(args) ==
    /\ args.parity \in {"N", "E", "O", "M", "S"}
    /\ args.stopbits \in {"1", "1.5", "2"}
    /\ args.bytesize \in 5..8
    /\ args.timeout_ms >= 0
    /\ args.write_timeout_ms >= 0

\* "for conn in state.connections.values():
\*      if conn.port == port and conn.ser.is_open"
PortAlreadyOpen(port) ==
    \E id \in connections : objs[id].port = port /\ objs[id].ser = "open"

\* handle_open returns or raises, and _call_tool turns it into a result.
OpenReturns(h, code) ==
    /\ opc' = [opc EXCEPT ![h] = "idle"]
    /\ oport' = [oport EXCEPT ![h] = "none"]
    /\ ores' = [ores EXCEPT ![h] = code]

\* handle_open up to "ser = await asyncio.to_thread(pyserial.Serial, ...)":
\* the parameters are validated and the registry is searched for the port;
\* then the handler is suspended while a worker thread opens the transport.
OpenBegin(h, args) ==
    /\ opc[h] = "idle"
    /\ IF ~ValidConfig(args)
       THEN OpenReturns(h, "invalid_params")
       ELSE IF PortAlreadyOpen(args.port)
       THEN OpenReturns(h, "already_open")
       ELSE /\ opc' = [opc EXCEPT ![h] = "opening"]
            /\ oport' = [oport EXCEPT ![h] = args.port]
            /\ ores' = [ores EXCEPT ![h] = "none"]
    /\ oinfo' = NoInfo
    /\ UNCHANGED <<bufVars, loopVars, wrVars, teeVars, sessVars, plugVars, flushVars, connections, objs,
                   mirror_indices_in_use, links>>

\* _acquire_mirror_index: "while idx in _mirror_indices_in_use: idx += 1"
RECURSIVE ScanFree(_, _)
ScanFree(idx, inuse) == IF idx \in inuse THEN ScanFree(idx + 1, inuse) ELSE idx
\* (an allocator that hands out the number of indices in use)
AcquireMirrorIndexByCount(inuse) == Cardinality(inuse)
\* _acquire_mirror_index: "idx = 0", the scan, and the index it returns
\* (create_reader adds it to the set).
AcquireMirrorIndex(inuse) == ScanFree(0, inuse)

\* The index create_reader takes for a new reader: none (-1) for a plain
\* ReaderThread, the lowest free one for a MirrorSession (the link base is
\* always set when mirroring is on, helpers.py).
None == -1
IndexFor(inuse) == IF mode = "off" THEN None ELSE AcquireMirrorIndex(inuse)

\* create_reader, reader.start() and the SerialConnection for it: the object
\* as it is when handle_open reaches add_connection.
NewObject(port, inuse) ==
    [port |-> port, ser |-> "open", stopped |-> FALSE,
     idx |-> IndexFor(inuse), acquired |-> IndexFor(inuse),
     link_created |-> IndexFor(inuse) # None, fate |-> "registered",
     stops |-> 0, closes |-> 0, outside |-> FALSE]

\* ReaderThread.stop / MirrorSession.stop on object o: the object afterwards
\* (stops counts the calls of stop() on the object's reader).
Stopped(o) ==
    [o EXCEPT !.stopped = TRUE, !.idx = None, !.link_created = FALSE,
              !.stops = @ + 1]
\* (a stop that keeps its index)
IndicesAfterStopKept(o, inuse) == inuse
\* MirrorSession.stop: "_release_mirror_index(self._mirror_index)"
IndicesAfterStop(o, inuse) == IF o.idx # None THEN inuse \ {o.idx} ELSE inuse
\* MirrorSession.stop: "os.unlink(self.link_path)" when the link was created
LinksAfterStop(o, files) == IF o.link_created THEN files \ {o.acquired} ELSE files

\* "ser.close()" returns: the transport is closed (closes counts the calls of
\* close() on the object's transport).
SerClosed(o) == [o EXCEPT !.ser = "closed", !.closes = @ + 1]

\* "try: conn.reader.stop() / except Exception: pass". A stop() that raises
\* does so in "super().stop()", the one statement of MirrorSession.stop that
\* is not inside a try of its own: the descriptors, the alias and the index
\* are then left as they were.
StopReader(o, stopRaises) ==
    IF stopRaises THEN [o EXCEPT !.stops = @ + 1] ELSE Stopped(o)
IndicesAfterStopReader(o, inuse, stopRaises) ==
    IF stopRaises THEN inuse ELSE IndicesAfterStop(o, inuse)
LinksAfterStopReader(o, files, stopRaises) ==
    IF stopRaises THEN files ELSE LinksAfterStop(o, files)

\* (a close that does not ask the transport whether it is open)
CloseIfOpenAlways(o, closeRaises) ==
    IF closeRaises THEN [o EXCEPT !.closes = @ + 1] ELSE SerClosed(o)
\* "try: if conn.ser.is_open: conn.ser.close() / except Exception: pass". A
\* close() that raises leaves is_open as it was (pyserial clears it last).
CloseIfOpen(o, closeRaises) ==
    IF o.ser # "open" THEN o
    ELSE IF closeRaises THEN [o EXCEPT !.closes = @ + 1]
    ELSE SerClosed(o)

\* (a close that gives up when stopping the reader raises)
StopAndCloseGivesUp(o, stopRaises, closeRaises) ==
    IF stopRaises THEN [StopReader(o, TRUE) EXCEPT !.fate = "closed"]
    ELSE [CloseIfOpen(Stopped(o), closeRaises) EXCEPT !.fate = "closed"]
\* The body of close_connection and of the loop of shutdown on one connection.
StopAndClose(o, stopRaises, closeRaises) ==
    [CloseIfOpen(StopReader(o, stopRaises), closeRaises) EXCEPT !.fate = "closed"]

\* handle_open, "except Exception: reader.stop(); ser.close(); raise": the
\* object, the slot allocator and the alias files after the clean-up.
\* (a handler that only closes the transport)
CleanupForgetsReader(o, inuse, files) ==
    [obj |-> [SerClosed(o) EXCEPT !.fate = "rejected"],
     inuse |-> inuse, links |-> files]
CleanupAfterFailedInsert(o, inuse, files) ==
    [obj |-> [SerClosed(Stopped(o)) EXCEPT !.fate = "rejected"],
     inuse |-> IndicesAfterStop(o, inuse),
     links |-> LinksAfterStop(o, files)]

\* "if len(self.connections) >= self.max_connections: raise RuntimeError"
\* (a limit test that is off by one)
RegistryFullOffByOne(n) == n > MaxConnections
RegistryFull(n) == n >= MaxConnections

\* handle_open from the return of pyserial.Serial to its own return; nothing
\* in this stretch suspends the handler.
OpenFinish(h) ==
    /\ opc[h] = "opening"
    /\ \/ \* pyserial.Serial raises SerialException
          /\ OpenReturns(h, "io_error")
          /\ UNCHANGED <<connections, objs, mirror_indices_in_use, links>>
       \/ \* the transport is open
          /\ Len(objs) < MaxOpens
          /\ LET id == Len(objs) + 1
                 o == NewObject(oport[h], mirror_indices_in_use)
                 taken == IF o.idx # None THEN {o.idx} ELSE {}
             IN  IF RegistryFull(Cardinality(connections))
                 THEN LET r == CleanupAfterFailedInsert(
                                   o, mirror_indices_in_use \cup taken,
                                   links \cup taken)
                      IN  /\ objs' = Append(objs, r.obj)
                          /\ mirror_indices_in_use' = r.inuse
                          /\ links' = r.links
                          /\ connections' = connections
                          /\ OpenReturns(h, "limit_reached")
                 ELSE /\ objs' = Append(objs, o)
                      /\ mirror_indices_in_use' = mirror_indices_in_use \cup taken
                      /\ links' = links \cup taken
                      /\ connections' = connections \cup {id}
                      /\ OpenReturns(h, "ok")
    /\ oinfo' = NoInfo
    /\ UNCHANGED <<bufVars, loopVars, wrVars, teeVars, sessVars, plugVars, flushVars>>

\* The connection_id arguments of serial.close: the registered ids and one
\* id that was never handed out.
CloseIds == connections \cup {0}
\* The connection_id arguments of any handler: the ids handed out so far
\* (registered, closed or refused) and one id that was never handed out.
AnyIds == Ids \cup {0}

\* (a registry that still finds the connections it has closed)
UnknownUnlessHandedOut(id) == id \notin Ids \/ objs[id].fate = "rejected"
\* SerialState.get_connection / remove_connection: "if connection_id not in
\* self.connections: raise KeyError"
Unknown(id) == id \notin connections

\* handle_close / SerialState.close_connection(connection_id); the KeyError
\* of remove_connection is reported as not_found by _call_tool.
CloseConnection(h, id, stopRaises, closeRaises) ==
    /\ opc[h] = "idle"
    /\ IF Unknown(id)
       THEN /\ ores' = [ores EXCEPT ![h] = "not_found"]
            /\ oinfo' = [op |-> "close", connection_id |-> id, port |-> "none"]
            /\ UNCHANGED <<connections, objs, mirror_indices_in_use, links>>
       ELSE /\ connections' = connections \ {id}
            /\ objs' = [objs EXCEPT
                          ![id] = StopAndClose(@, stopRaises, closeRaises)]
            /\ mirror_indices_in_use' =
                  IndicesAfterStopReader(objs[id], mirror_indices_in_use, stopRaises)
            /\ links' = LinksAfterStopReader(objs[id], links, stopRaises)
            /\ ores' = [ores EXCEPT ![h] = "ok"]
            /\ oinfo' = [op |-> "close", connection_id |-> id,
                         port |-> objs[id].port]
    /\ UNCHANGED <<bufVars, loopVars, wrVars, teeVars, sessVars, plugVars, flushVars, opc, oport>>

\* (a status call that also answers for connections that were closed)
ConnectionStatusKeepsClosed(h, id) ==
    /\ opc[h] = "idle"
    /\ ores' = [ores EXCEPT ![h] = IF id \notin Ids THEN "not_found" ELSE "ok"]
    /\ oinfo' = [op |-> "status", connection_id |-> id,
                 port |-> IF id \notin Ids THEN "none" ELSE objs[id].port]
    /\ UNCHANGED <<bufVars, loopVars, wrVars, teeVars, sessVars, plugVars, flushVars, connections, objs,
                   mirror_indices_in_use, links, opc, oport>>
\* handle_connection_status, and the first statement of every other handler
\* that takes a connection_id: "conn = state.get_connection(...)".
ConnectionStatus(h, id) ==
    /\ opc[h] = "idle"
    /\ ores' = [ores EXCEPT ![h] = IF Unknown(id) THEN "not_found" ELSE "ok"]
    /\ oinfo' = [op |-> "status", connection_id |-> id,
                 port |-> IF Unknown(id) THEN "none" ELSE objs[id].port]
    /\ UNCHANGED <<bufVars, loopVars, wrVars, teeVars, sessVars, plugVars, flushVars, connections, objs,
                   mirror_indices_in_use, links, opc, oport>>

\* The Serial object of a registered connection is closed by code outside
\* SerialState (a plugin handler is handed the state and its connections):
\* conn.ser.is_open is False from then on.
TransportClosedOutside(id) ==
    /\ id \in connections
    /\ objs[id].ser = "open"
    /\ objs' = [objs EXCEPT ![id] = [SerClosed(@) EXCEPT !.outside = TRUE]]
    /\ oinfo' = NoInfo
    /\ UNCHANGED <<bufVars, loopVars, wrVars, teeVars, sessVars, plugVars, flushVars, connections,
                   mirror_indices_in_use, links, opc, oport, ores>>

\* "for conn in list(self.connections.values())": the connections of ids
\* stopped and closed one after the other, in the order of the dict (the
\* order of insertion, which is the order of the ids).
RECURSIVE StopAll(_, _, _, _, _, _)
StopAll(ids, os, inuse, files, stopRaises, closeRaises) ==
    IF ids = {} THEN [objs |-> os, inuse |-> inuse, links |-> files]
    ELSE LET id == CHOOSE i \in ids : \A j \in ids : i <= j
         IN  StopAll(ids \ {id},
                     [os EXCEPT ![id] = StopAndClose(@, id \in stopRaises,
                                                     id \in closeRaises)],
                     IndicesAfterStopReader(os[id], inuse, id \in stopRaises),
                     LinksAfterStopReader(os[id], files, id \in stopRaises),
                     stopRaises, closeRaises)

\* (a shutdown that gives up at the first connection whose stop raises)
ShutdownSetStopsAtFailure(stopRaises) ==
    IF stopRaises = {} THEN connections
    ELSE {id \in connections : \A bad \in stopRaises : id <= bad}
\* shutdown visits every registered connection.
ShutdownSet(stopRaises) == connections

\* SerialState.shutdown; stopRaises and closeRaises are the connections whose
\* reader.stop() and ser.close() raise.
Shutdown(stopRaises, closeRaises) ==
    /\ connections # {}
    /\ LET r == StopAll(ShutdownSet(stopRaises), objs, mirror_indices_in_use,
                        links, stopRaises, closeRaises)
       IN  /\ objs' = r.objs
           /\ mirror_indices_in_use' = r.inuse
           /\ links' = r.links
    /\ connections' = {}
    /\ oinfo' = NoInfo
    /\ UNCHANGED <<bufVars, loopVars, wrVars, teeVars, sessVars, plugVars, flushVars, opc, oport, ores>>

\* MIRROR_PTY is fixed for the process; the registry treats "ro" and "rw"
\* alike (create_reader tests for "off" only), so "rw" stands for both.
RegInit ==
    /\ BufferInit /\ ReaderInit /\ WriteSideInit
    /\ mode \in {"off", "rw"}
    /\ RegistryInit /\ SessionInit /\ PluginInit /\ FlushInit

RegNext ==
    \/ \E h \in Handlers, args \in OpenArgs : OpenBegin(h, args)
    \/ \E h \in Handlers : OpenFinish(h)
    \/ \E h \in Handlers, id \in CloseIds : CloseConnection(h, id, FALSE, FALSE)
    \/ Shutdown({}, {})

\* The registry where nothing raises on the way down.
SpecReg == RegInit /\ [][RegNext]_vars

\* One client opening, querying, closing and shutting down, with transports
\* that are closed behind the registry's back and with stop() and close()
\* calls that raise. The client opens at most MaxClosable transports, and
\* at most MaxFaulty connections meet such a fault.
Closers == {"h1"}
Faulty(o) ==
    \/ o.stops > 0 /\ ~o.stopped
    \/ o.closes > 0 /\ o.ser = "open"
    \/ o.outside
FaultsLeft == MaxFaulty - Cardinality({id \in Ids : Faulty(objs[id])})
Raises == IF FaultsLeft > 0 THEN BOOLEAN ELSE {FALSE}
RaiseSets ==
    {pair \in (SUBSET connections) \X (SUBSET connections) :
        Cardinality(pair[1] \cup pair[2]) <= FaultsLeft}
CloseNext ==
    \/ \E h \in Closers, port \in Ports :
            Len(objs) < MaxClosable /\ OpenBegin(h, DefaultArgs(port))
    \/ \E h \in Closers : OpenFinish(h)
    \/ \E h \in Closers, id \in AnyIds, stopRaises \in Raises,
          closeRaises \in Raises :
            CloseConnection(h, id, stopRaises, closeRaises)
    \/ \E h \in Closers, id \in AnyIds : ConnectionStatus(h, id)
    \/ \E id \in connections : FaultsLeft > 0 /\ TransportClosedOutside(id)
    \/ \E pair \in RaiseSets : Shutdown(pair[1], pair[2])

SpecClose == RegInit /\ [][CloseNext]_vars

\* ------------------------------------------- MirrorSession and its resources
\* The smallest number of a set of numbers.
FirstFree(S) == CHOOSE n \in S : \A m \in S : n <= m
\* The descriptor numbers that are free: os.openpty takes the two lowest.
FreeFds == {n \in FdNums : fds[n] = 0}

\* What is left unchanged by a call on a MirrorSession.
sessRest == <<bufVars, loopVars, wrVars, teeVars, plugVars, flushVars, connections, objs,
              links, opc, oport, ores, oinfo>>

\* handle_open from "reader = create_reader(ser, buf, MIRROR_PTY,
\* MIRROR_PTY_LINK)" on, with mirroring on and a link base: the index is
\* acquired, then MirrorSession.__init__ runs. ptyFails: os.openpty raises
\* (no descriptors left); the exception leaves create_reader and handle_open,
\* where nothing catches it. linkFails: the first file-system call of the
\* symlink block raises OSError, which __init__ logs.
CreateReader(ptyFails, linkFails) ==
    /\ Len(sessions) < MaxSessions
    /\ LET id == Len(sessions) + 1
           idx == AcquireMirrorIndex(mirror_indices_in_use)
           master == FirstFree(FreeFds)
           slave == FirstFree(FreeFds \ {master})
       IN  /\ mirror_indices_in_use' = mirror_indices_in_use \cup {idx}
           /\ IF ptyFails
              THEN /\ sessions' = Append(sessions,
                        [built |-> FALSE, ser |-> "open", master_fd |-> 0,
                         slave_fd |-> 0, link_path |-> idx,
                         link_created |-> FALSE, mirror_index |-> None,
                         stops |-> 0])
                   /\ fds' = fds
                   /\ aliases' = aliases
                   /\ sinfo' = [op |-> "create", id |-> id, raised |-> TRUE,
                                link |-> None, failed |-> {}]
              ELSE /\ sessions' = Append(sessions,
                        [built |-> TRUE, ser |-> "open", master_fd |-> master,
                         slave_fd |-> slave, link_path |-> idx,
                         link_created |-> ~linkFails, mirror_index |-> idx,
                         stops |-> 0])
                   /\ fds' = [fds EXCEPT ![master] = id, ![slave] = id]
                   /\ aliases' = IF linkFails THEN aliases
                                 ELSE [aliases EXCEPT ![idx] = id]
                   /\ sinfo' = [op |-> "create", id |-> id, raised |-> FALSE,
                                link |-> None, failed |-> {}]
    /\ UNCHANGED sessRest

\* "try: os.close(fd) / except OSError: pass" on descriptor number n: the
\* call raises when it is made to (fails) or when the number is free (EBADF),
\* and closes whatever descriptor has the number otherwise.
OsClose(table, n, fails) ==
    IF fails \/ table[n] = 0 THEN table ELSE [table EXCEPT ![n] = 0]

\* "if self._link_created and self.link_path: try: os.unlink(...)": whether
\* the unlink is called and succeeds.
Unlinks(o, fails) == o.link_created /\ ~fails /\ aliases[o.link_path] # 0

\* (a stop that keeps the index when the alias could not be removed)
ReleaseAfterStopUnlessUnlinkFailed(o, inuse, unlinkFails) ==
    IF o.mirror_index # None /\ ~(o.link_created /\ ~Unlinks(o, unlinkFails))
    THEN inuse \ {o.mirror_index} ELSE inuse
\* "if self._mirror_index is not None: _release_mirror_index(...)"
ReleaseAfterStop(o, inuse, unlinkFails) ==
    IF o.mirror_index # None THEN inuse \ {o.mirror_index} ELSE inuse

\* The number of stop() calls made so far on the first n sessions.
RECURSIVE StopCalls(_)
StopCalls(n) == IF n = 0 THEN 0 ELSE sessions[n].stops + StopCalls(n - 1)

\* MirrorSession.stop on session s, the first call or a later one; failed
\* holds the steps that are made to raise OSError.
StopSession(s, failed) ==
    /\ s \in 1..Len(sessions)
    /\ sessions[s].built
    /\ StopCalls(Len(sessions)) < MaxStops
    /\ LET o == sessions[s]
           unlinked == Unlinks(o, "unlink" \in failed)
       IN  /\ fds' = OsClose(OsClose(fds, o.master_fd, "master" \in failed),
                             o.slave_fd, "slave" \in failed)
           /\ aliases' = IF unlinked THEN [aliases EXCEPT ![o.link_path] = 0]
                         ELSE aliases
           /\ mirror_indices_in_use' =
                 ReleaseAfterStop(o, mirror_indices_in_use, "unlink" \in failed)
           /\ sessions' = [sessions EXCEPT ![s] =
                 [o EXCEPT !.stops = @ + 1,
                           !.link_created = IF unlinked THEN FALSE ELSE @,
                           !.mirror_index = None]]
    /\ sinfo' = [op |-> "stop", id |-> s, raised |-> FALSE, link |-> None,
                 failed |-> failed]
    /\ UNCHANGED sessRest

\* MirrorSession.mirror_info on session s: the "link" entry of the dict.
MirrorInfo(s) ==
    /\ s \in 1..Len(sessions)
    /\ sessions[s].built
    /\ sinfo' = [op |-> "info", id |-> s, raised |-> FALSE,
                 link |-> sessions[s].link_path, failed |-> {}]
    /\ UNCHANGED <<sessRest, sessions, fds, aliases, mirror_indices_in_use>>

\* The clean-up steps of stop(), and the sets of them that are made to fail:
\* none, any one, or all.
StopSteps == {"master", "slave", "unlink"}
FailSets == {{}, {"master"}, {"slave"}, {"unlink"}, StopSteps}

SessInit ==
    /\ BufferInit /\ ReaderInit /\ WriteSideInit
    /\ mode = "rw"
    /\ RegistryInit /\ SessionInit /\ PluginInit /\ FlushInit

SessNext ==
    \/ \E ptyFails \in BOOLEAN : CreateReader(ptyFails, FALSE)
    \/ CreateReader(FALSE, TRUE)
    \/ \E s \in 1..MaxSessions, failed \in FailSets : StopSession(s, failed)
    \/ \E s \in 1..MaxSessions : MirrorInfo(s)

\* MirrorSession objects made by create_reader, queried and stopped, with
\* constructions and clean-up steps that fail.
SpecSess == SessInit /\ [][SessNext]_vars

\* ----------------------------------------------------------- PluginManager
\* What is left unchanged by a call on the PluginManager.
plugRest == <<bufVars, loopVars, wrVars, teeVars, regVars, sessVars, flushVars>>

\* What a plugin file may be rewritten to: a valid plugin with one tool (its
\* own, the other plugin's, or one named like a tool of the server), or a
\* file load_plugin rejects (it does not execute, or TOOLS and HANDLERS do
\* not match).
Contents ==
    {[ok |-> TRUE, tool |-> t] : t \in ToolNames \cup {"core"}}
        \cup {[ok |-> FALSE, tool |-> "none"]}

\* The number of edits made so far.
Edits == (disk["p"].ver - 1) + (disk["q"].ver - 1)

\* The file of plugin n is rewritten.
Edit(n, content) ==
    /\ Edits < MaxEdits
    /\ disk' = [disk EXCEPT ![n] = [ok |-> content.ok, tool |-> content.tool,
                                    ver |-> @.ver + 1]]
    /\ pinfo' = NoPluginCall
    /\ UNCHANGED <<plugRest, plugin_tools, plugin_handlers, loaded>>

\* The three registries as one record.
Registry == [tools |-> plugin_tools, handlers |-> plugin_handlers, loaded |-> loaded]

\* The sequence s without the elements whose name is in names.
RECURSIVE Without(_, _)
Without(s, names) ==
    IF s = <<>> THEN <<>>
    ELSE (IF Head(s).name \in names THEN <<>> ELSE <<Head(s)>>)
            \o Without(Tail(s), names)

\* PluginManager.unload(n) on registry r, n being loaded: the tool list is
\* filtered, the handlers are popped, the entry is deleted.
Unloaded(r, n) ==
    LET names == r.loaded[n].tool_names
    IN  [tools |-> Without(r.tools, names),
         handlers |-> {h \in r.handlers : h.name \notin names},
         loaded |-> [m \in DOMAIN r.loaded \ {n} |-> r.loaded[m]]]

\* "if tool.name in existing_names: raise ValueError"
Collides(r, tool) == \E i \in 1..Len(r.tools) : r.tools[i].name = tool

\* PluginManager.load, from "self._tools.extend(tools)" to the return.
Registered(r, n, file) ==
    LET entry == [name |-> file.tool, plugin |-> n, ver |-> file.ver]
    IN  [tools |-> Append(r.tools, entry),
         handlers |-> {h \in r.handlers : h.name # file.tool} \cup {entry},
         loaded |-> [m \in DOMAIN r.loaded \cup {n} |->
                        IF m = n THEN [tool_names |-> {file.tool}, ver |-> file.ver]
                        ELSE r.loaded[m]]]

\* PluginManager.load(path of n) on registry r: the registry afterwards and
\* the exception raised, "no" for none. load_plugin validates the file
\* first; then a plugin of that name is unloaded; then the new tools are
\* tested against the list.
LoadOn(r, n) ==
    IF ~disk[n].ok THEN [reg |-> r, raised |-> "ValueError"]
    ELSE LET r1 == IF n \in DOMAIN r.loaded THEN Unloaded(r, n) ELSE r
         IN  IF Collides(r1, disk[n].tool)
             THEN [reg |-> r1, raised |-> "ValueError"]
             ELSE [reg |-> Registered(r1, n, disk[n]), raised |-> "no"]

\* A call on the manager ends with registry r.
PluginCallEnds(op, n, r, raised) ==
    /\ plugin_tools' = r.tools
    /\ plugin_handlers' = r.handlers
    /\ loaded' = r.loaded
    /\ pinfo' = [op |-> op, name |-> n, raised |-> raised]
    /\ UNCHANGED <<plugRest, disk>>

\* PluginManager.load(path) for the file of plugin n (the policy allows
\* every plugin: SERIAL_MCP_PLUGINS=all).
Load(n) ==
    LET r == LoadOn(Registry, n)
    IN  PluginCallEnds("load", n, r.reg, r.raised)

\* PluginManager.unload(n)
Unload(n) ==
    IF n \notin DOMAIN loaded
    THEN PluginCallEnds("unload", n, Registry, "KeyError")
    ELSE PluginCallEnds("unload", n, Unloaded(Registry, n), "no")

\* PluginManager.reload(n): "self.unload(name)" and "return self.load(path)"
Reload(n) ==
    IF n \notin DOMAIN loaded
    THEN PluginCallEnds("reload", n, Registry, "KeyError")
    ELSE LET r == LoadOn(Unloaded(Registry, n), n)
         IN  PluginCallEnds("reload", n, r.reg, r.raised)

PlugInit ==
    /\ BufferInit /\ ReaderInit /\ WriteSideInit
    /\ mode = "off"
    /\ RegistryInit /\ SessionInit /\ PluginInit /\ FlushInit

PlugNext ==
    \/ \E n \in PluginNames, content \in Contents : Edit(n, content)
    \/ \E n \in PluginNames : Load(n)
    \/ \E n \in PluginNames : Unload(n)
    \/ \E n \in PluginNames : Reload(n)

\* The plugin files edited, and the plugins loaded, unloaded and reloaded.
SpecPlug == PlugInit /\ [][PlugNext]_vars

\* ------------------------------------------------- claims on SerialBuffer
\* The last n elements of s.
LastN(s, n) == SubSeq(s, Max(Len(s) - n, 0) + 1, Len(s))

\* C1: as long as no write has overflowed the buffer, the bytes returned by
\* the consumer calls so far, in return order, followed by the bytes still
\* buffered, are exactly the written bytes in write order; so once the buffer
\* is drained the reads have returned exactly what was written, however the
\* reads were chunked.
C1_ReadsReturnWrittenInOrder ==
    evicted = 0 =>
        /\ written = delivered \o buf
        /\ (buf = <<>> => Bytes(delivered) = Bytes(written))

\* C1 witness: three or more bytes were written without overflow and have
\* all been returned by consumer calls.
C1_Witness ==
    /\ evicted = 0
    /\ Len(written) >= 3
    /\ buf = <<>>
    /\ delivered = written

\* C2: the buffer never holds more than max_size bytes, and every write
\* leaves exactly the last max_size bytes of (old content ++ written data),
\* all of them when they fit: the oldest bytes are the ones evicted.
C2_BoundedOldestEvicted ==
    /\ [](Len(buf) <= MaxSize)
    /\ [][\A data \in Chunks :
            Write(data) =>
                buf' = LastN(buf \o Stamp(data, Len(written)), MaxSize)]_vars

\* C2 witness: a write has overflowed the buffer, which is now full and ends
\* with the newest byte written.
C2_Witness ==
    /\ evicted > 0
    /\ Len(buf) = MaxSize
    /\ buf[MaxSize].id = Len(written)
    /\ buf[1].id = (Len(written) - MaxSize) + 1

\* The number of places of s that hold the byte written at position i.
Copies(s, i) == Cardinality({k \in 1..Len(s) : s[k].id = i})

\* C3: without overflow, under every interleaving of writes and of the two
\* consumers' read / read_until calls, each written byte is either still
\* buffered or was returned by exactly one consumer call, never both and
\* never twice, and the bytes read plus the bytes buffered number the bytes
\* written.
C3_EachByteDeliveredOnce ==
    evicted = 0 =>
        /\ \A i \in 1..Len(written) :
              Copies(delivered, i) + Copies(buf, i) = 1
        /\ Len(delivered) + Len(buf) = Len(written)

\* C3 witness: both consumers are blocked at once, one in read and one in
\* read_until, after bytes were written and some of them returned.
C3_Witness ==
    /\ evicted = 0
    /\ delivered # <<>>
    /\ Len(written) >= 2
    /\ \E c, d \in Consumers :
          /\ cpc[c] = "waiting" /\ call[c].op = "read"
          /\ cpc[d] = "waiting" /\ call[d].op = "read_until"

\* ------------------------------------------- claims on the read handlers
\* C11: SerialBuffer.read(n, t) never returns more than n bytes, whatever n
\* the caller passed (for zero and negative n: no byte at all), and what it
\* returns is the front of the buffer.
C11_ReadNeverReturnsMoreThanN ==
    ret.op = "read" =>
        /\ Len(ret.raw) <= Max(ret.n, 0)
        /\ ret.pre = ret.raw \o ret.post

\* The 1-based position just past the first occurrence of delimiter in b
\* (0 when there is none).
FirstEnd(b, delimiter) ==
    LET n == Len(delimiter)
        ends == {e \in n..Len(b) :
                    \A j \in 1..n : b[(e - n) + j].b = delimiter[j]}
    IN  IF ends = {} THEN 0 ELSE CHOOSE e \in ends : \A k \in ends : e <= k

\* C12: a read_until with a non-empty delimiter whose first occurrence ends
\* within the first max_bytes bytes of the buffer returns the buffer up to
\* and including that occurrence and leaves the rest, so the records of a
\* buffer come out one per call, in order.
C12_ReadUntilReturnsFirstRecord ==
    (/\ ret.op = "read_until"
     /\ ret.d # <<>>
     /\ FirstEnd(ret.pre, ret.d) > 0
     /\ FirstEnd(ret.pre, ret.d) <= ret.n)
        => /\ ret.raw = SubSeq(ret.pre, 1, FirstEnd(ret.pre, ret.d))
           /\ ret.post = SubSeq(ret.pre, FirstEnd(ret.pre, ret.d) + 1, Len(ret.pre))

\* C12 witness: a read_until returned the first of two records and left the
\* second in the buffer.
C12_Witness ==
    /\ ret.op = "read_until"
    /\ ret.d = <<1>>
    /\ Bytes(ret.pre) = <<1, 1>>
    /\ ret.raw = <<ret.pre[1]>>
    /\ ret.post = <<ret.pre[2]>>

\* C13: read_until never returns more than max_bytes bytes (for zero and
\* negative max_bytes: no byte at all); when the buffer holds max_bytes bytes
\* or more and no occurrence of the non-empty delimiter ends within the first
\* max_bytes, it returns exactly the first max_bytes bytes, the deadline not
\* yet reached, and leaves the rest.
C13_ReadUntilNeverExceedsMaxBytes ==
    ret.op = "read_until" =>
        /\ Len(ret.raw) <= Max(ret.n, 0)
        /\ (/\ ret.d # <<>>
            /\ Len(ret.pre) >= ret.n
            /\ ~(FirstEnd(ret.pre, ret.d) \in 1..ret.n))
              => /\ Len(ret.raw) = Max(ret.n, 0)
                 /\ ret.pre = ret.raw \o ret.post

\* C14, as claimed: read returns the empty byte string only when the buffer
\* is empty at the deadline, and then leaves the buffer as it was; read_until
\* at the deadline with no delimiter found returns and consumes what is
\* buffered (up to max_bytes).
C14_EmptyOnlyAtDeadline ==
    /\ (ret.op = "read" /\ ret.raw = <<>>)
          => (ret.pre = <<>> /\ ret.left = 0 /\ ret.post = ret.pre)
    /\ (ret.op = "read_until" /\ ret.left = 0 /\ FirstEnd(ret.pre, ret.d) = 0)
          => /\ ret.raw = SubSeq(ret.pre, 1, Min(Len(ret.pre), Max(ret.n, 0)))
             /\ ret.pre = ret.raw \o ret.post

\* C14, amended: read returns the empty byte string when the buffer is empty
\* at the deadline, or at once when nbytes selects no byte of a non-empty
\* buffer (nbytes = 0, or nbytes negative and no more than -nbytes bytes
\* buffered), and in both cases leaves the buffer as it was; read_until with
\* a non-empty delimiter, at the deadline with no delimiter found and fewer
\* than max_bytes bytes buffered, returns and consumes all that is buffered.
C14_TimeoutIsAValue ==
    /\ (ret.op = "read" /\ ret.raw = <<>>)
          => /\ ret.post = ret.pre
             /\ \/ ret.pre = <<>> /\ ret.left = 0
                \/ ret.pre # <<>> /\ ret.n = 0
                \/ ret.pre # <<>> /\ ret.n < 0 /\ Len(ret.pre) <= -ret.n
    /\ (ret.op = "read" /\ ret.pre = <<>>) => (ret.raw = <<>> /\ ret.left = 0)
    /\ (/\ ret.op = "read_until" /\ ret.d # <<>> /\ ret.left = 0
        /\ FirstEnd(ret.pre, ret.d) = 0 /\ Len(ret.pre) < ret.n)
          => (ret.raw = ret.pre /\ ret.post = <<>>)
    /\ (/\ ret.op = "read_until" /\ ret.d # <<>>
        /\ FirstEnd(ret.pre, ret.d) = 0 /\ Len(ret.pre) < ret.n)
          => ret.left = 0

\* C14 witness: a read_until reached its deadline with one byte buffered, no
\* delimiter in it and room under max_bytes, and returned that byte.
C14_Witness ==
    /\ ret.op = "read_until"
    /\ ret.d = <<1>>
    /\ ret.left = 0
    /\ Bytes(ret.pre) = <<0>>
    /\ ret.n > 1
    /\ ret.raw = ret.pre

\* C15: the empty delimiter never matches: a read_until called with it
\* returns only at its deadline or with max_bytes bytes, never with time
\* left and fewer than max_bytes bytes buffered.
C15_EmptyDelimiterNeverMatches ==
    (ret.op = "read_until" /\ ret.d = <<>>)
        => (ret.left = 0 \/ Len(ret.pre) >= ret.n)

\* ------------------------------------------------- claims on blocked calls
\* The buffer holds what the blocked call of consumer c is waiting for.
Satisfied(c) ==
    IF call[c].op = "read" THEN buf # <<>>
    ELSE UntilCut(buf, call[c].d, call[c].n, FALSE) # Wait

\* What the step hands to a consumer.
Got == SubSeq(delivered', Len(delivered) + 1, Len(delivered'))

\* The bytes end with the delimiter.
EndsWith(bytes, delimiter) ==
    /\ Len(bytes) >= Len(delimiter)
    /\ SubSeq(bytes, (Len(bytes) - Len(delimiter)) + 1, Len(bytes)) = delimiter

\* C28: a write wakes every consumer blocked in read or read_until, so that
\* no consumer stays asleep while the buffer holds what its call waits for;
\* a blocked call that returns before its deadline returns at once what
\* read or read_until cut from the buffer the write left, which is data when
\* at least one byte was asked for (for read_until: bytes that end with the
\* delimiter, or max_bytes bytes); and a write goes ahead while every
\* consumer is blocked.
C28_WriteWakesBlockedConsumers ==
    /\ [](\A c \in Consumers :
            (cpc[c] = "waiting" /\ Satisfied(c)) => c \in woken)
    /\ []((\A c \in Consumers : cpc[c] = "waiting") =>
            \A data \in Chunks :
                Len(written) + Len(data) <= MaxTotal => ENABLED Write(data))
    /\ [][written' # written =>
            \A c \in Consumers : cpc[c] = "waiting" => c \in woken']_vars
    /\ [][\A c \in Consumers :
            (cpc[c] = "waiting" /\ cpc'[c] = "idle" /\ call[c].left > 0) =>
                /\ buf # <<>>
                /\ Got \o buf' = buf
                /\ call[c].n >= 1 => Got # <<>>
                /\ call[c].op = "read_until" =>
                      \/ Len(Got) = call[c].n
                      \/ EndsWith(Bytes(Got), call[c].d)]_vars

\* C28 witness: a write has just woken two blocked consumers, one in read
\* and one in read_until, before their deadlines, and the buffer holds what
\* each of them waits for.
C28_Witness ==
    /\ \A c \in Consumers :
          cpc[c] = "waiting" /\ c \in woken /\ call[c].left > 0 /\ Satisfied(c)
    /\ \E c \in Consumers : call[c].op = "read"
    /\ \E c \in Consumers : call[c].op = "read_until"

\* C29: every read and read_until call that blocks eventually returns, given
\* that the clock advances and the consumer is scheduled: whether or not the
\* producer writes again, whether or not the connection is closed meanwhile,
\* and whatever the other consumer does.
C29_EveryCallReturns ==
    \A c \in Consumers : (cpc[c] = "waiting") ~> (cpc[c] = "idle")

\* C29 witness: both consumers are blocked with time left, nothing is
\* buffered, the producer has written all it will ever write, and the
\* connection has been closed under them.
C29_Witness ==
    /\ \A c \in Consumers : cpc[c] = "waiting" /\ call[c].left > 0
    /\ buf = <<>>
    /\ Len(written) = MaxTotal
    /\ closePc = "done" /\ ~registered /\ ~serOpen

\* ------------------------------------------- claims on the connection registry
\* C6: no two registered connections whose transport is open refer to the
\* same port: the registered, open connections have pairwise distinct ports.
C6_NoDuplicateOpenPort ==
    \A a \in connections, b \in connections :
        (a # b /\ objs[a].ser = "open" /\ objs[b].ser = "open")
            => objs[a].port # objs[b].port

\* The open of handler h returns in this step with the given result.
OpenReturned(h, code) ==
    opc[h] = "opening" /\ opc'[h] = "idle" /\ ores'[h] = code

\* C7: the registry never holds more than its maximum of connections; an
\* open whose transport opened is refused with limit_reached exactly when the
\* registry is full, and is registered whenever it is not full (so also after
\* a connection has been closed).
C7_RegistryNeverExceedsLimit ==
    /\ [](Cardinality(connections) <= MaxConnections)
    /\ [][\A h \in Handlers :
            /\ OpenReturned(h, "limit_reached")
                  => /\ Cardinality(connections) = MaxConnections
                     /\ connections' = connections
            /\ OpenReturned(h, "ok")
                  => /\ Cardinality(connections) < MaxConnections
                     /\ connections' = connections \cup {Len(objs')}
                     /\ Len(objs') \notin connections]_vars
C7_Witness ==
    /\ Cardinality(connections) = MaxConnections
    /\ \E id \in Ids : objs[id].fate = "rejected"
    /\ \E id \in Ids : objs[id].fate = "closed"
    /\ \E id \in connections : id > MaxConnections + 1

LowestFree(inuse) == CHOOSE i \in 0..Cardinality(inuse) :
    i \notin inuse /\ \A j \in 0..(i - 1) : j \in inuse

\* The sessions that hold a mirror index.
Live == {id \in Ids : objs[id].idx # None}

StoppedAlone(id) ==
    /\ id \in Live
    /\ objs'[id].idx = None
    /\ \A other \in Live \ {id} : objs'[other].idx # None

Invalid(args) ==
    \/ args.parity \notin {"N", "E", "O", "M", "S"}
    \/ args.stopbits \notin {"1", "1.5", "2"}
    \/ args.bytesize \notin {5, 6, 7, 8}
    \/ args.timeout_ms < 0
    \/ args.write_timeout_ms < 0

\* C26: serial.open with an invalid configuration returns invalid_params
\* without opening a transport (the handler is not suspended in the open and
\* no connection object is created), and leaves the registry, the slot
\* allocator, the aliases and every connection object unchanged.
C26_InvalidConfigRejectedFirst ==
    [][\A h \in Handlers, args \in OpenArgs :
          (OpenBegin(h, args) /\ Invalid(args)) =>
              /\ ores'[h] = "invalid_params"
              /\ opc'[h] = "idle"
              /\ UNCHANGED <<connections, objs, mirror_indices_in_use,
                             links>>]_vars

\* C26 witness: an open was refused with invalid_params while the port it
\* named is registered and open with a mirror slot, and another open is
\* suspended.
C26_Witness ==
    /\ \E h \in Handlers : ores[h] = "invalid_params"
    /\ \E id \in connections :
          objs[id].port = "p1" /\ objs[id].ser = "open" /\ objs[id].idx # None
    /\ \E g \in Handlers : opc[g] = "opening"

\* ------------------------------------ claims on closing and shutting down
\* Handler h makes the call close_connection(id) in this step.
Closes(h, id) ==
    \E stopRaises \in BOOLEAN, closeRaises \in BOOLEAN :
        CloseConnection(h, id, stopRaises, closeRaises)

\* C21: close_connection on a registered connection whose transport already
\* reports not-open returns the connection's id and port without raising,
\* does not call close() on the transport again, and removes the connection
\* from the registry.
C21_CloseOfNotOpenTransport ==
    [][\A h \in Handlers, id \in Ids :
          (Closes(h, id) /\ id \in connections /\ objs[id].ser # "open") =>
              /\ ores'[h] = "ok"
              /\ oinfo' = [op |-> "close", connection_id |-> id,
                           port |-> objs[id].port]
              /\ objs'[id].closes = objs[id].closes
              /\ objs'[id].ser = objs[id].ser
              /\ connections' = connections \ {id}]_vars

\* C21 witness: the close of a connection whose transport was not open has
\* just returned, and close() was called on that transport only once, by the
\* code outside the registry.
C21_Witness ==
    /\ oinfo.op = "close" /\ oinfo.port # "none"
    /\ objs[oinfo.connection_id].fate = "closed"
    /\ objs[oinfo.connection_id].ser = "closed"
    /\ objs[oinfo.connection_id].closes = 1
    /\ objs[oinfo.connection_id].outside
    /\ oinfo.connection_id \notin connections

\* C22, as claimed: a second close of the same connection, after the first
\* has completed, succeeds without raising.
C22_SecondCloseSucceeds ==
    [][\A h \in Handlers, id \in Ids :
          (Closes(h, id) /\ objs[id].fate = "closed") => ores'[h] = "ok"]_vars

\* C22, amended: a second close of the same connection, after the first has
\* completed, raises KeyError (reported as not_found) and is harmless: it
\* reaches neither the reader nor the transport of the closed connection and
\* leaves the registry, the slot allocator and the aliases as they were.
C22_SecondCloseIsNotFound ==
    [][\A h \in Handlers, id \in Ids :
          (Closes(h, id) /\ objs[id].fate = "closed") =>
              /\ ores'[h] = "not_found"
              /\ oinfo' = [op |-> "close", connection_id |-> id, port |-> "none"]
              /\ UNCHANGED <<connections, objs, mirror_indices_in_use, links>>]_vars

\* C22 witness: the latest call was a close of a connection that had been
\* closed before, and it was answered with not_found.
C22_Witness ==
    /\ oinfo.op = "close" /\ oinfo.port = "none"
    /\ oinfo.connection_id \in Ids
    /\ objs[oinfo.connection_id].fate = "closed"
    /\ objs[oinfo.connection_id].stops = 1
    /\ \E h \in Handlers : ores[h] = "not_found"

\* The id was never handed out, or its connection is not registered any more
\* (or never was, its open having been refused).
NotOpen(id) == id \notin Ids \/ objs[id].fate # "registered"

\* C23: exactly the connections opened and not yet closed are registered, and
\* a close or a lookup (get_connection, the first statement of every handler
\* that takes a connection_id) of any other id is answered with not_found and
\* leaves the registry, every connection object, the slot allocator and the
\* aliases unchanged.
C23_UnknownIdIsNotFound ==
    /\ [](\A id \in Ids : id \in connections <=> objs[id].fate = "registered")
    /\ [](connections \subseteq Ids)
    /\ [][\A h \in Handlers, id \in AnyIds :
            ((Closes(h, id) \/ ConnectionStatus(h, id)) /\ NotOpen(id)) =>
                /\ ores'[h] = "not_found"
                /\ oinfo'.connection_id = id /\ oinfo'.port = "none"
                /\ UNCHANGED <<connections, objs, mirror_indices_in_use,
                               links>>]_vars

\* C23 witness: the latest call was a status call on a closed connection,
\* answered with not_found, while another connection is registered.
C23_Witness ==
    /\ oinfo.op = "status" /\ oinfo.port = "none"
    /\ oinfo.connection_id \in Ids
    /\ objs[oinfo.connection_id].fate = "closed"
    /\ connections # {}
    /\ \E h \in Handlers : ores[h] = "not_found"

\* C24: the steps of close are individually fault-tolerant. A close of a
\* registered id removes the connection from the registry, calls stop() on
\* its reader once and, whether or not that raised, calls close() once on a
\* transport that reports open; and whether or not stop() or close() raised,
\* the caller gets the id and port back, not an error.
C24_CloseStepsFaultTolerant ==
    [][\A h \in Handlers, id \in Ids :
          (Closes(h, id) /\ id \in connections) =>
              /\ connections' = connections \ {id}
              /\ objs'[id].stops = objs[id].stops + 1
              /\ objs[id].ser = "open" => objs'[id].closes = objs[id].closes + 1
              /\ ores'[h] = "ok"
              /\ oinfo' = [op |-> "close", connection_id |-> id,
                           port |-> objs[id].port]]_vars

\* C24 witness: a close has just returned the id and port of a connection
\* whose stop() raised and whose close() raised after it.
C24_Witness ==
    /\ oinfo.op = "close" /\ oinfo.port # "none"
    /\ oinfo.connection_id \notin connections
    /\ \E h \in Handlers : ores[h] = "ok"
    /\ LET o == objs[oinfo.connection_id]
       IN  /\ o.stops = 1 /\ ~o.stopped
           /\ o.closes = 1 /\ o.ser = "open"

\* shutdown is called in this step.
ShutsDown ==
    \E stopRaises \in SUBSET connections, closeRaises \in SUBSET connections :
        Shutdown(stopRaises, closeRaises)

\* C25: shutdown calls stop() on the reader of every registered connection
\* exactly once and leaves every registered transport with exactly one
\* close() call (its own, unless the transport already reported not-open),
\* whichever of these calls raise; it touches no other connection object and
\* leaves the registry empty. No reader is ever stopped twice and no
\* transport closed twice.
C25_ShutdownStopsAndClosesEach ==
    /\ [](\A id \in Ids : objs[id].stops <= 1 /\ objs[id].closes <= 1)
    /\ [][ShutsDown =>
            /\ connections' = {}
            /\ \A id \in connections :
                  /\ objs[id].stops = 0 /\ objs'[id].stops = 1
                  /\ objs'[id].closes = 1
                  /\ objs[id].ser = "open" => objs[id].closes = 0
            /\ \A id \in Ids \ connections : objs'[id] = objs[id]]_vars

\* C25 witness: shutdown has emptied a registry of two connections; the
\* stop() of the first raised and the close() of the second raised, and both
\* were stopped once and closed once.
C25_Witness ==
    /\ connections = {}
    /\ oinfo = NoInfo
    /\ \E a \in Ids, b \in Ids :
          /\ a < b
          /\ objs[a].fate = "closed" /\ objs[b].fate = "closed"
          /\ objs[a].stops = 1 /\ ~objs[a].stopped /\ objs[a].ser = "closed"
          /\ objs[b].stops = 1 /\ objs[b].closes = 1 /\ objs[b].ser = "open"

\* --------------------------------------- claims on the write-arbitration lock
\* Writer w is inside its transport write.
InWrite(w) == IF w = "mirror" THEN lpc = "fwd_write" ELSE tpc[w] = "write"
Writers == Tools \cup {"mirror"}

\* Every chunk on the wire is whole and unbroken: a byte that is not the
\* first of its chunk directly follows the byte before it of the same chunk,
\* and a byte that is not the last of its chunk is directly followed by the
\* next one, unless it is the last byte on the wire so far.
WireUnbroken ==
    \A i \in 1..Len(wire) :
        /\ wire[i].k > 1 =>
              /\ i > 1
              /\ wire[i - 1].by = wire[i].by
              /\ wire[i - 1].k = wire[i].k - 1
        /\ (wire[i].k < wire[i].of /\ i < Len(wire)) =>
              /\ wire[i + 1].by = wire[i].by
              /\ wire[i + 1].k = wire[i].k + 1

\* C4: transport writes are mutually exclusive: never are two writers (the
\* mirror thread forwarding PTY bytes, a tool-issued serial.write) inside
\* their transport write at once, a writer inside its transport write holds
\* the lock, and so no payload is interleaved with another on the wire.
C4_WritesMutuallyExclusive ==
    /\ \A v, w \in Writers : (InWrite(v) /\ InWrite(w)) => v = w
    /\ \A w \in Writers : InWrite(w) => writeLock = w
    /\ WireUnbroken

\* C4 witness: in rw mode the mirror thread has PTY bytes to forward and
\* waits for the lock while a tool write is half-way through its payload.
C4_Witness ==
    /\ mode = "rw"
    /\ lpc = "fwd_acquire"
    /\ \E t \in Tools :
          /\ tpc[t] = "write"
          /\ tpay[t] # <<>>
          /\ Head(tpay[t]).k > 1

\* C5 as stated: both writers flush before they give the lock back, so
\* whenever the lock is free nothing written is left unflushed.
C5_BothFlushUnderLock ==
    writeLock = "free" => pending = 0

\* C5 as amended: a tool-issued write holds the lock from its transport write
\* through its flush until it releases, and has flushed everything written
\* when it releases; the mirror-forwarded write holds the lock around its
\* transport write and issues no flush; while either holds the lock no
\* other party is inside a transport write.
C5_LockSpansToolWriteAndFlush ==
    /\ \A t \in Tools :
          /\ tpc[t] \in {"write", "flush", "release"} => writeLock = t
          /\ tpc[t] = "release" => pending = 0
          /\ tpc[t] = "flush" => \A w \in Writers \ {t} : ~InWrite(w)
    /\ lpc \in {"fwd_write", "fwd_release"} =>
          /\ writeLock = "mirror"
          /\ \A t \in Tools : ~InWrite(t)
    /\ (lpc = "fwd_release" /\ pty_data = <<>>) => pending > 0

\* C5 witness: a tool write has written its payload and not yet flushed,
\* while the mirror thread has PTY bytes to forward and waits for the lock.
C5_Witness ==
    /\ mode = "rw"
    /\ lpc = "fwd_acquire"
    /\ \E t \in Tools : tpc[t] = "flush" /\ pending > 0

\* ------------------------------------------------- claims on MirrorSession
\* The PTY bytes of a sequence of chunk bytes, each by the position at which
\* the external process wrote it.
RECURSIVE PtyIds(_)
PtyIds(s) ==
    IF s = <<>> THEN <<>>
    ELSE (IF Head(s).by = "mirror" THEN <<Head(s).id>> ELSE <<>>) \o PtyIds(Tail(s))

\* C16: in rw mode the bytes an external process wrote to the PTY reach the
\* transport's write side in the order written, none dropped and none
\* duplicated, while the session runs: the PTY bytes on the wire, those the
\* loop holds in pty_data and those still in the PTY are, in this order,
\* all the bytes written so far.
C16_PtyBytesForwardedInOrder ==
    mode = "rw" =>
        PtyIds(wire) \o PtyIds(pty_data) \o ptyq = [i \in 1..ptyIn |-> i]

\* C17: in ro mode the session never writes to the transport: the loop
\* never reads the PTY master nor enters the forwarding branch, what an
\* external process wrote stays in the PTY, and every byte on the wire comes
\* from a tool-issued write.
C17_ReadOnlyNeverForwards ==
    mode = "ro" =>
        /\ \A i \in 1..Len(wire) : wire[i].by \in Tools
        /\ lpc \notin {"pty_read", "fwd_acquire", "fwd_write", "fwd_release"}
        /\ writeLock # "mirror"
        /\ ptyq = [i \in 1..ptyIn |-> i]

\* C17 witness: in ro mode an external process has written to the PTY, the
\* loop has been through select since, and a tool's bytes are on the wire.
C17_Witness ==
    /\ mode = "ro"
    /\ ptyIn = MaxPty
    /\ lpc = "dispatch"
    /\ wire # <<>>

Stale == lpc = "dead" /\ ~stopFlag

\* C27: once the ingest loop has stopped itself on exhausted retries, its
\* connection stays registered (until it is closed), and a read or
\* read_until on it returns a normal result, never not_found: a prefix of
\* what is buffered, for read the first min(nbytes, buffered) bytes, which is
\* nothing when nothing is buffered.
C27_StaleConnectionStillReadable ==
    /\ [](Stale => registered /\ errors = MaxConsecutiveErrors)
    /\ [][(Stale /\ ret' # ret) =>
            /\ ret'.op \in {"read", "read_until"}
            /\ ret'.raw \o ret'.post = ret'.pre
            /\ ret'.pre = buf /\ ret'.post = buf'
            /\ ret'.op = "read" =>
                  Len(ret'.raw) = Min(ret'.n, Len(ret'.pre))
            /\ ret'.op = "read_until" => Len(ret'.raw) <= ret'.n]_vars

\* C27 witness: the loop gave up after ten consecutive errors with a byte
\* still in the transport, and a read on its connection has since returned
\* the byte that was buffered.
C27_Witness ==
    /\ Stale /\ registered /\ errors = MaxConsecutiveErrors
    /\ rx # <<>>
    /\ ret.op = "read" /\ Len(ret.raw) = 1 /\ ret.post = <<>>

C9_LoopStopsAfterTenErrors ==
    /\ (streak >= MaxConsecutiveErrors /\ lpc # "except") =>
           (lpc = "dead" /\ ~Alive)
    /\ lpc \in {"test", "in_waiting", "read", "on_data", "except", "sleep", "dead"}
    /\ closePc = "idle" => registered

\* C9 witness: the loop has ended on its tenth consecutive error, nobody
\* asked it to stop, and its connection is still registered.
C9_Witness ==
    /\ lpc = "dead"
    /\ ~stopFlag
    /\ streak = MaxConsecutiveErrors
    /\ ~Alive
    /\ registered

\* C10: while the loop runs, the counter is the number of errors since the
\* last successful iteration, and a loop that ended without being asked to stop ended on
\* _MAX_CONSECUTIVE_ERRORS errors in a row: streaks shorter than that never
\* end it, whatever the total number of errors.
C10_CounterResetsOnSuccess ==
    /\ lpc \notin {"except", "dead"} => errors = streak
    /\ (lpc = "dead" /\ ~stopFlag) => streak >= MaxConsecutiveErrors
    /\ (streak < MaxConsecutiveErrors /\ ~stopFlag) => lpc # "dead"

\* C10 witness: more errors in total than the threshold, in streaks that a
\* successful iteration interrupted, and the loop still runs.
C10_Witness ==
    /\ failures > MaxConsecutiveErrors
    /\ streak < MaxConsecutiveErrors
    /\ ~stopFlag
    /\ lpc = "test"
    /\ Alive


\* ------------------------------------------------- claims on stopping a loop
\* What one step of a loop that was told to stop may do: it enters no new
\* iteration, counts no error, and starts no back-off.
StopObeyed ==
    stopFlag /\ lpc' # lpc =>
        /\ lpc = "test" => lpc' = "dead"
        /\ lpc = "except" => lpc' = "dead"
        /\ lpc' \notin {"sleep", "m_sleep", "sel_sleep"}
        /\ errors' <= errors

\* C31: once the stop flag is set, the plain or the mirror loop starts no new
\* iteration, an error of the transport ends it without being counted and
\* without a back-off sleep, and the loop's thread ends, given that the call
\* it is in returns.
C31_StopTakesPriority ==
    /\ [][StopObeyed]_vars
    /\ stopFlag ~> (lpc = "dead")

\* The plain loop ended on an error it did not count.
C31_Witness ==
    /\ mode = "off"
    /\ stopFlag
    /\ lpc = "dead"
    /\ streak = errors + 1
    /\ ~TooManyErrors(errors)

\* --------------------------------------------- claims on MirrorSession.stop
\* The sessions that were constructed and never stopped.
LiveSessions == {t \in 1..Len(sessions) : sessions[t].built /\ sessions[t].stops = 0}

\* Session t has what it was given: both descriptors, its alias when it made
\* one, and its slot index.
Holds(t, table, files, inuse) ==
    /\ table[sessions[t].master_fd] = t
    /\ table[sessions[t].slave_fd] = t
    /\ sessions[t].link_created => files[sessions[t].link_path] = t
    /\ sessions[t].mirror_index \in inuse

\* A step that is a stop() call on session s.
StopOf(s) == sinfo'.op = "stop" /\ sinfo'.id = s /\ sessions' # sessions

\* C32: a second stop() on a session takes nothing from another live
\* session: no descriptor of it is closed, its alias is not removed and its
\* slot index is not released.
C32_SecondStopIsHarmless ==
    [][\A s \in 1..Len(sessions) :
          StopOf(s) /\ sessions[s].stops >= 1 =>
             \A t \in LiveSessions :
                Holds(t, fds, aliases, mirror_indices_in_use) =>
                   Holds(t, fds', aliases', mirror_indices_in_use')]_vars

\* C33: in every stop() each clean-up step that does not itself fail takes
\* effect whichever of the other steps fail, and the slot index is released
\* whether or not the alias could be removed.
C33_StopStepsFaultTolerant ==
    [][\A s \in 1..Len(sessions) :
          StopOf(s) =>
             LET o == sessions[s]
                 failed == sinfo'.failed
             IN  /\ "master" \notin failed => fds'[o.master_fd] = 0
                 /\ "slave" \notin failed => fds'[o.slave_fd] = 0
                 /\ "unlink" \notin failed /\ o.link_created =>
                       aliases'[o.link_path] = 0
                 /\ o.mirror_index # None =>
                       o.mirror_index \notin mirror_indices_in_use'
                 /\ sessions'[s].mirror_index = None]_vars

\* The first stop() of a session that had an alias: all three steps failed
\* and the index is free again.
C33_Witness ==
    /\ sinfo.op = "stop"
    /\ sinfo.failed = StopSteps
    /\ sessions[sinfo.id].stops = 1
    /\ sessions[sinfo.id].link_created
    /\ sessions[sinfo.id].link_path \notin mirror_indices_in_use

\* C35: mirror_info() of a running session whose symlink could not be
\* created reports no link.
C35_NoLinkReportedWhenSymlinkFailed ==
    sinfo.op = "info" /\ sessions[sinfo.id].stops = 0
                      /\ ~sessions[sinfo.id].link_created
        => sinfo.link = None

\* C37: every index in the allocator's in-use set belongs to exactly one
\* session that was constructed and has not been stopped.
C37_EveryIndexInUseIsOwned ==
    \A i \in mirror_indices_in_use :
        Cardinality({t \in LiveSessions : sessions[t].mirror_index = i}) = 1

\* C34: a mirror loop whose transport reads keep failing gives up: if the
\* loop backs off after a failed read again and again (the successful reads
\* of a behaviour are finitely many, so from some point on every iteration
\* is a failed one), its thread ends.
C34_MirrorLoopGivesUp ==
    []<>(mode # "off" /\ lpc = "m_sleep") => <>(lpc = "dead")

\* C36: once stop() has returned (close_connection is at or past the close of
\* the transport), the loop's thread has ended.
C36_ThreadEndedWhenStopReturns ==
    closePc \in {"ser_close", "done"} => lpc = "dead"

\* ------------------------------------------- claims on a failing tool write
\* C38: a tool call holds the write lock only while it is inside
\* _locked_write: a call that has returned, with a result or with an error,
\* does not hold it; a write or flush that raised ends with the lock free and
\* with io_error reported; and whoever holds the lock gives it back, so that
\* no later writer waits for ever.
C38_LockReleasedOnEveryPath ==
    /\ [](\A t \in Tools : tpc[t] \in {"idle", "acquire"} => writeLock # t)
    /\ [][\A t \in Tools :
             tpc[t] = "unwind" /\ tpc'[t] = "idle" =>
                writeLock' = "free" /\ tres'[t] = "io_error"]_vars
    /\ (writeLock # "free") ~> (writeLock = "free")

\* A tool's write has failed and returned, and the other tool has entered
\* the lock after it.
C38_Witness ==
    /\ tres["t1"] = "io_error"
    /\ tpc["t1"] = "idle"
    /\ writeLock = "t2"

\* ------------------------------------------------------- claims on flushing
\* C39: once a flush of the input has returned, no read returns a byte the
\* transport had received before the flush began; a flush of the output
\* leaves the SerialBuffer as it is.
C39_FlushDiscardsEarlierBytes ==
    /\ [](fpc = "done" /\ fwhat \in {"input", "both"} =>
             \A i \in 1..Len(delivered) : delivered[i].b > fmark)
    /\ [][fpc' # fpc /\ fwhat' = "output" => buf' = buf]_vars

\* ------------------------------------------------------- claims on plugins
\* The three registries hold version ver of plugin n with its one tool, and
\* nothing else of n.
HoldsVersion(n, tool, ver, tools, handlers, ldd) ==
    LET entry == [name |-> tool, plugin |-> n, ver |-> ver]
    IN  /\ {i \in 1..Len(tools) : tools[i].plugin = n}
              = {i \in 1..Len(tools) : tools[i] = entry}
        /\ Cardinality({i \in 1..Len(tools) : tools[i] = entry}) = 1
        /\ {h \in handlers : h.plugin = n} = {entry}
        /\ n \in DOMAIN ldd
        /\ ldd[n] = [tool_names |-> {tool}, ver |-> ver]

\* C40: a reload, or a load of a plugin that is already loaded, leaves the
\* tool list, the handler map and the loaded map either all with the new
\* version of the plugin or, when it raises, all as they were.
C40_ReloadIsAtomic ==
    [][\A n \in PluginNames :
          /\ pinfo'.op \in {"reload", "load"}
          /\ pinfo'.name = n
          /\ n \in DOMAIN loaded
          => IF pinfo'.raised = "no"
             THEN HoldsVersion(n, disk[n].tool, disk[n].ver,
                               plugin_tools', plugin_handlers', loaded')
             ELSE /\ plugin_tools' = plugin_tools
                  /\ plugin_handlers' = plugin_handlers
                  /\ loaded' = loaded]_vars
====
